---- MODULE Spec2Model ----
(***************************************************************************)
(* Client-side chat session/state coordinator of the CarePay frontend:     *)
(* ChatInterface (message log, progress, processing and connection-error   *)
(* flags, session handle), the useApi hook (createSession,                 *)
(* sendChatMessage, getSessionStatus) and HomeContent (session history,    *)
(* active session handle, persisted history in localStorage).              *)
(*                                                                         *)
(* One React commit (event handler or promise continuation, the re-render  *)
(* it causes and the effects of that render) is one action.  A handler     *)
(* that awaits a remote call is a task whose position is its pc; the       *)
(* remote backend answers a pending request with any outcome it can give.  *)
(* A task reads the props and state of the render that started it (its     *)
(* closure); state setters of an unmounted ChatInterface do nothing, while *)
(* the callback prop onSessionCreated still reaches HomeContent.           *)
(* Timestamps of entries are left out: no operation reads them.            *)
(***************************************************************************)
EXTENDS Integers, Sequences, FiniteSets, TLC

\* ---------------------------------------------------------------- bounds
MaxActions == 3      \* user gestures (send, retry, new chat, select, delete) in a run
MaxSends == 2        \* sends of non-blank input to one mounted ChatInterface

\* ------------------------------------------------------------- constants
Undefined == "undefined"        \* JavaScript undefined, for a handle, a field or a payload
Null == "(null)"                \* JavaScript null, as the value of a field
InitialProgress == 10
ProgressStep == 5
ProgressCap == 95
FullProgress == 100
NoProgress == 0 - 1             \* a reply without the optional progress field

WelcomeText == "Hello! I'm here to assist you with your healthcare loan application."
LoadedText == "Previous session loaded. How can I help you continue with your loan application?"
ReceivedText == "I received your message."
CouldNotConnectText == "Could not connect to the chat server. Please check your connection and try again."

\* the handle the backend issues as its n-th
Handle(n) == CASE n = 1 -> "S1" [] n = 2 -> "S2" [] n = 3 -> "S3" [] n = 4 -> "S4"
               [] n = 5 -> "S5" [] OTHER -> "S6"

\* ------------------------------------------------------------ user input
\* the texts the user can have in the input field
Inputs == {"", "  ", "Hello"}

\* the characters of a text (TLC cannot index a string)
Chars(s) == CASE s = "" -> << >>
              [] s = "  " -> <<" ", " ">>
              [] s = "Hello" -> <<"H", "e", "l", "l", "o">>
              [] OTHER -> <<"?">>

WhiteSpace == {" ", "\t", "\n"}

\* String.prototype.trim on the characters of a text
RECURSIVE TrimLeft(_)
TrimLeft(cs) == IF cs # << >> /\ Head(cs) \in WhiteSpace THEN TrimLeft(Tail(cs)) ELSE cs

RECURSIVE TrimRight(_)
TrimRight(cs) ==
  IF cs # << >> /\ cs[Len(cs)] \in WhiteSpace THEN TrimRight(SubSeq(cs, 1, Len(cs) - 1)) ELSE cs

Trim(cs) == TrimRight(TrimLeft(cs))

\* the test without trim: only the empty text is held back
IsBlank_NoTrim(s) == s = ""

\* input.trim() === ""
IsBlank(s) == Trim(Chars(s)) = << >>

\* -------------------------------------------------------- remote outcomes
\* error texts useApi can return: a transport failure is the message of the error fetch
\* throws (browser dependent), a non-success status is the message of the error body or
\* the "Server error" text
TransportErrors == {"Failed to fetch", "NetworkError when attempting to fetch resource."}
StatusErrors == {"Server error: 500 Internal Server Error"}
Errors == TransportErrors \cup StatusErrors

\* error.includes('fetch failed') || error.includes('NetworkError') || error.includes('ECONNREFUSED')
IsConnectionIssue(err) ==
  CASE err = "Failed to fetch" -> FALSE
    [] err = "NetworkError when attempting to fetch resource." -> TRUE
    [] err = "fetch failed" -> TRUE
    [] OTHER -> FALSE

\* reply bodies (the response field of a message response)
PlainBody == "Hi, how can I help?"
NullBody == "null"
MessageOnlyBody == "{\"message\":\"Noted\"}"
EnvelopeBody == "{\"message\":\"Approved\",\"bureauDecision\":{\"status\":\"APPROVED\"}}"
EmptyMessageBody == "{\"message\":\"\",\"bureauDecision\":{\"status\":\"REJECTED\"}}"
Bodies == {"", PlainBody, NullBody, MessageOnlyBody, EnvelopeBody, EmptyMessageBody}

\* JSON.parse of a reply body: kind "throws" for a SyntaxError, else the kind of the
\* value and, of an object, its message and bureauDecision properties
JSONparse(body) ==
  CASE body = NullBody -> [kind |-> "null", message |-> Undefined, bureauDecision |-> Undefined]
    [] body = MessageOnlyBody ->
         [kind |-> "object", message |-> "Noted", bureauDecision |-> Undefined]
    [] body = EnvelopeBody ->
         [kind |-> "object", message |-> "Approved", bureauDecision |-> "APPROVED"]
    [] body = EmptyMessageBody ->
         [kind |-> "object", message |-> "", bureauDecision |-> "REJECTED"]
    [] OTHER -> [kind |-> "throws", message |-> Undefined, bureauDecision |-> Undefined]

\* JavaScript truthiness of a string, null or undefined value
Truthy(v) == v \notin {"", Undefined, Null}

\* the progress fields a reply can carry
ProgressValues == {NoProgress, 0, 30, FullProgress}

\* `Error loading session: ${error.message}`
LoadErrorText(err) ==
  CASE err = "Failed to fetch" -> "Error loading session: Failed to fetch"
    [] err = "NetworkError when attempting to fetch resource." ->
         "Error loading session: NetworkError when attempting to fetch resource."
    [] OTHER -> "Error loading session: Server error: 500 Internal Server Error"

\* ----------------------------------------------------------------- state
VARIABLES
  messages,               \* ChatInterface: the message log
  input,                  \* ChatInterface: the text of the input field
  isProcessing,           \* ChatInterface: the processing flag
  applicationProgress,    \* ChatInterface: the progress value
  sessionId,              \* ChatInterface: the session handle the coordinator holds
  connectionError,        \* ChatInterface: the connection-error flag
  sessionInitializedRef,  \* ChatInterface: sessionInitializedRef.current
  sessions,               \* HomeContent: the history list (session ids, in order)
  currentSessionId,       \* HomeContent: the active session handle
  storage,                \* localStorage item carepay_sessions
  tasks,                  \* the handlers suspended at an await, each with its pending request
  issued,                 \* the number of handles the backend has issued
  sendsOk,                \* sends of the mounted ChatInterface that settled with a reply
  sendsFailed,            \* sends of the mounted ChatInterface that settled with an error
  progressGiven,          \* a reply to the mounted ChatInterface carried a progress it applied
  nActions,               \* user gestures so far
  op,                     \* the handler or continuation that ran last, with its argument
  cookies,                \* the cookies of the browser for the site
  local,                  \* localStorage: the items of the credential and chat_count
  auth,                   \* AuthProvider: its state
  page,                   \* the document the browser shows: pathname and search params
  login,                  \* LoginPage: its state
  now,                    \* the clock: Date.now()
  chatCount               \* HomeContent (second version): the new-chat counter

\* the state of the site around the chat: credential, provider, document, login page
siteVars == <<cookies, local, auth, page, login>>

\* the state only the second version of HomeContent has
homeV2Vars == <<now, chatCount>>

vars == <<messages, input, isProcessing, applicationProgress, sessionId, connectionError,
          sessionInitializedRef, sessions, currentSessionId, storage, tasks,
          issued, sendsOk, sendsFailed, progressGiven, nActions, op,
          cookies, local, auth, page, login, now, chatCount>>

chatVars == <<messages, input, isProcessing, applicationProgress, sessionId,
              connectionError, sessionInitializedRef, sendsOk, sendsFailed, progressGiven>>

\* no reply: the continuation that ran was not that of an answered message request
NoReply == [session_id |-> Undefined, response |-> Undefined, progress |-> NoProgress]

\* what ran last: a handler with its argument, the reply it was given if any, and for a
\* handler of HomeContent the active session handle it found
Op(name, arg) == [name |-> name, arg |-> arg, reply |-> NoReply, active |-> Undefined]

HomeOp(name, arg) == [Op(name, arg) EXCEPT !.active = currentSessionId]

\* ------------------------------------------------------------- messages
Message(id, type, text, decision) ==
  [id |-> id, type |-> type, text |-> text, bureauDecision |-> decision]

WelcomeMessage == Message("1", "bot", WelcomeText, Undefined)
LoadedMessage == Message("loaded_session", "bot", LoadedText, Undefined)

\* ------------------------------------------------------------- requests
\* a remote request in flight: create-session, message or session-status
Request(kind, sid, msg) == [kind |-> kind, session_id |-> sid, message |-> msg]

CreateRequest == Request("create", Undefined, Undefined)

\* a number no suspended handler has
FreshId(ts) == CHOOSE i \in 1..(Cardinality(ts) + 1) : \A t \in ts : t.id # i

\* a handler suspended at the await of request req; sessionId and userInput are the
\* values of the render it closed over
Task(ts, fn, req, sid, userInput) ==
  [id |-> FreshId(ts), fn |-> fn, req |-> req, mounted |-> TRUE, sessionId |-> sid,
   userInput |-> userInput]

\* the handlers of ChatInterface that await a request
ChatHandlers == {"initializeSession", "loadSessionMessages", "handleSendMessage"}

\* the handlers of a ChatInterface that is unmounted keep running, detached
Unmount(ts) ==
  {IF t.fn \in ChatHandlers THEN [t EXCEPT !.mounted = FALSE] ELSE t : t \in ts}

\* the requests in flight
Pending == {t.id : t \in tasks}

\* ----------------------------------------------- handleSendMessage, pure
\* response.data?.response || "I received your message."
ResponseText(body) == IF Truthy(body) THEN body ELSE ReceivedText

\* parsedResponse.message && parsedResponse.bureauDecision, inside the try: reading a
\* property of null throws and is caught like a SyntaxError
HasDecisionShape(parsed) ==
  /\ parsed.kind = "object"
  /\ Truthy(parsed.message)
  /\ Truthy(parsed.bureauDecision)

\* the shape check on bureauDecision alone
Render_DecisionOnly(body) ==
  LET responseText == ResponseText(body)
      parsedResponse == JSONparse(responseText)
  IN IF parsedResponse.kind = "object" /\ Truthy(parsedResponse.bureauDecision)
       THEN [text |-> parsedResponse.message, bureauDecision |-> parsedResponse.bureauDecision]
       ELSE [text |-> responseText, bureauDecision |-> Undefined]

\* the text and the decision payload of the assistant entry for a reply body
Render(body) ==
  LET responseText == ResponseText(body)
      parsedResponse == JSONparse(responseText)
  IN IF HasDecisionShape(parsedResponse)
       THEN [text |-> parsedResponse.message, bureauDecision |-> parsedResponse.bureauDecision]
       ELSE [text |-> responseText, bureauDecision |-> Undefined]

Min(a, b) == IF a <= b THEN a ELSE b

\* the increment without its cap
NextProgress_NoCap(prev, progress, bureauDecision) ==
  LET forced == IF bureauDecision # Undefined THEN FullProgress ELSE prev
  IN IF progress # NoProgress /\ progress # 0
       THEN progress
       ELSE IF bureauDecision = Undefined THEN forced + ProgressStep ELSE forced

\* the progress after a reply: setApplicationProgress(100) on a decision, then the
\* progress field of the reply if truthy, else the increment unless a decision came
NextProgress(prev, progress, bureauDecision) ==
  LET forced == IF bureauDecision # Undefined THEN FullProgress ELSE prev
  IN IF progress # NoProgress /\ progress # 0
       THEN progress
       ELSE IF bureauDecision = Undefined
              THEN Min(forced + ProgressStep, ProgressCap)
              ELSE forced

\* the text of the error entry: the connection text for a connection issue, else the error
ErrorText(err) == IF IsConnectionIssue(err) THEN CouldNotConnectText ELSE err

\* ------------------------------------------------------------ HomeContent
\* key={currentSessionId || "new-session"}
Key(sid) == IF Truthy(sid) THEN sid ELSE "new-session"

Contains(list, sid) == \E i \in 1..Len(list) : list[i] = sid

\* prev.filter(s => s.id !== sessionId)
Filter(list, sid) == SelectSeq(list, LAMBDA s : s # sid)

\* the effect on [sessions]: written only when the list is not empty
Persist(new) ==
  storage' = IF new # sessions /\ Len(new) > 0 THEN [present |-> TRUE, list |-> new]
             ELSE storage

\* ------------------------------------------------------------ credential
\* the token and the phone number of the user, the doctor a link to the site names
Token == "T1"
Phone == "9876543210"
DoctorId == "D1"
DoctorName == "Dr_A"

\* the cookies of the site: the value of each, Undefined for a cookie that is not there
Cookies(token, phone, doctorId, doctorName) ==
  [auth_token |-> token, phone_number |-> phone, doctor_id |-> doctorId,
   doctor_name |-> doctorName]

NoCookies == Cookies(Undefined, Undefined, Undefined, Undefined)

\* the localStorage items of the credential and the new-chat counter: getItem of each,
\* Null for an item that is not there
Local(token, phone, doctorId, doctorName, count) ==
  [auth_token |-> token, phone_number |-> phone, doctor_id |-> doctorId,
   doctor_name |-> doctorName, chat_count |-> count]

\* the state of AuthProvider
Auth(isAuthenticated, token, phone, doctorId, doctorName) ==
  [isAuthenticated |-> isAuthenticated, token |-> token, phoneNumber |-> phone,
   doctorId |-> doctorId, doctorName |-> doctorName]

SignedOut == Auth(FALSE, Null, Null, Null, Null)

\* the document shown: its pathname and the search params doctorId and doctor_name
Page(pathname, doctorId, doctorName) ==
  [pathname |-> pathname, doctorId |-> doctorId, doctor_name |-> doctorName]

\* the initial state of LoginPage
LoginInitial == [phone |-> "", otp |-> "", isLoading |-> FALSE, otpSent |-> FALSE]

\* the user has signed in and the chat page is shown
SignedIn ==
  /\ cookies = Cookies(Token, Phone, Undefined, Undefined)
  /\ local = Local(Token, Phone, Null, Null, Null)
  /\ auth = Auth(TRUE, Token, Phone, Null, Null)
  /\ page = Page("/", Null, Null)
  /\ login = LoginInitial

\* --------------------------------------------------- ChatInterface, mount
\* the initializeSession that ignores the handle of the render it closed over
InitializeSessionRuns_NoHandleGuard(closureIsProcessing, closureSessionId) ==
  ~closureIsProcessing

\* if (isProcessing || sessionId) return, on the values of the render the caller closed over
InitializeSessionRuns(closureIsProcessing, closureSessionId) ==
  ~(closureIsProcessing \/ Truthy(closureSessionId))

\* initializeSession up to the await of createSession; it returns at once when the render
\* it closed over was processing or held a handle (runs = FALSE)
InitializeSessionTasks(runs, ts) ==
  IF runs THEN ts \cup {Task(ts, "initializeSession", CreateRequest, Undefined, Undefined)}
  ELSE ts

\* a ChatInterface is mounted with the prop sessionId: initial state, then the effect on
\* [initialSessionId]: initializeSession() without a handle, loadSessionMessages with one
Mount(prop, ts) ==
  /\ messages' = <<WelcomeMessage>>
  /\ input' = ""
  /\ applicationProgress' = InitialProgress
  /\ sessionId' = prop
  /\ connectionError' = FALSE
  /\ sendsOk' = 0
  /\ sendsFailed' = 0
  /\ progressGiven' = FALSE
  /\ isProcessing' = TRUE
  /\ IF ~Truthy(prop)
       THEN /\ sessionInitializedRef' = TRUE
            /\ tasks' = InitializeSessionTasks(InitializeSessionRuns(FALSE, prop), Unmount(ts))
       ELSE /\ sessionInitializedRef' = FALSE
            /\ tasks' = Unmount(ts) \cup
                 {Task(Unmount(ts), "loadSessionMessages", Request("status", prop, Undefined),
                       prop, Undefined)}

\* HomeContent renders with a new active handle: a changed key remounts ChatInterface
Render_Home(new, ts) ==
  IF Key(new) # Key(currentSessionId)
    THEN Mount(new, ts)
    ELSE /\ UNCHANGED chatVars
         /\ tasks' = ts

Init ==
  /\ messages = <<WelcomeMessage>>
  /\ input = ""
  /\ isProcessing = TRUE
  /\ applicationProgress = InitialProgress
  /\ sessionId = Undefined
  /\ connectionError = FALSE
  /\ sessionInitializedRef = TRUE
  /\ sessions = << >>
  /\ currentSessionId = Undefined
  /\ storage = [present |-> FALSE, list |-> << >>]
  /\ tasks = {Task({}, "initializeSession", CreateRequest, Undefined, Undefined)}
  /\ issued = 0
  /\ sendsOk = 0
  /\ sendsFailed = 0
  /\ progressGiven = FALSE
  /\ nActions = 0
  /\ op = Op("mount", Undefined)
  /\ SignedIn
  /\ now = 0
  /\ chatCount = 0

\* ---------------------------------------------------- HomeContent, handlers
handleCreateNewSession ==
  /\ nActions < MaxActions
  /\ LET new == IF Truthy(currentSessionId) /\ ~Contains(sessions, currentSessionId)
                  THEN Append(sessions, currentSessionId) ELSE sessions
     IN /\ sessions' = new
        /\ Persist(new)
  /\ currentSessionId' = Undefined
  /\ Render_Home(Undefined, tasks)
  /\ nActions' = nActions + 1
  /\ op' = HomeOp("handleCreateNewSession", Undefined)
  /\ UNCHANGED <<siteVars, homeV2Vars>>
  /\ UNCHANGED issued

handleSessionSelect(sid) ==
  /\ nActions < MaxActions
  /\ Contains(sessions, sid)
  /\ LET new == IF Truthy(currentSessionId) /\ ~Contains(sessions, currentSessionId)
                  THEN Append(sessions, currentSessionId) ELSE sessions
     IN /\ sessions' = new
        /\ Persist(new)
  /\ currentSessionId' = sid
  /\ Render_Home(sid, tasks)
  /\ nActions' = nActions + 1
  /\ op' = HomeOp("handleSessionSelect", sid)
  /\ UNCHANGED <<siteVars, homeV2Vars>>
  /\ UNCHANGED issued

\* the active handle cleared whichever entry is deleted
AfterDelete_Always(cur, sid) == Undefined

\* if (currentSessionId === sessionId) setCurrentSessionId(undefined)
AfterDelete(cur, sid) == IF cur = sid THEN Undefined ELSE cur

handleDeleteSession(sid) ==
  /\ nActions < MaxActions
  /\ Contains(sessions, sid)
  /\ LET new == Filter(sessions, sid)
     IN /\ sessions' = new
        /\ Persist(new)
  /\ LET cur == AfterDelete(currentSessionId, sid)
     IN /\ currentSessionId' = cur
        /\ Render_Home(cur, tasks)
  /\ nActions' = nActions + 1
  /\ op' = HomeOp("handleDeleteSession", sid)
  /\ UNCHANGED <<siteVars, homeV2Vars>>
  /\ UNCHANGED issued

\* -------------------------------------------------- ChatInterface, handlers
\* onChange of the input field (disabled while processing)
setInput(text) ==
  /\ ~isProcessing
  /\ text # input
  /\ input' = text
  /\ op' = Op("setInput", text)
  /\ UNCHANGED <<siteVars, homeV2Vars>>
  /\ UNCHANGED <<messages, isProcessing, applicationProgress, sessionId, connectionError,
                 sessionInitializedRef, sessions, currentSessionId, storage, tasks,
                 issued, sendsOk, sendsFailed, progressGiven, nActions>>

\* sendChatMessage up to its first await: createSession() without a handle, else the
\* message request with the handle given
SendChatMessageStart(message, sid) ==
  IF ~Truthy(sid) THEN CreateRequest ELSE Request("message", sid, message)

\* Enter in the input field or the send button (both disabled while processing), up to
\* the await of sendChatMessage
handleSendMessage ==
  /\ ~isProcessing
  /\ op' = Op("handleSendMessage", input)
  /\ UNCHANGED <<siteVars, homeV2Vars>>
  /\ IF IsBlank(input)
       THEN UNCHANGED <<messages, input, isProcessing, applicationProgress, sessionId,
                        connectionError, sessionInitializedRef, sessions,
                        currentSessionId, storage, tasks, issued, sendsOk,
                        sendsFailed, progressGiven, nActions>>
       ELSE /\ nActions < MaxActions
            /\ sendsOk + sendsFailed < MaxSends
            /\ nActions' = nActions + 1
            /\ messages' = Append(messages, Message("user_", "user", input, Undefined))
            /\ input' = ""
            /\ isProcessing' = TRUE
            /\ connectionError' = FALSE
            /\ tasks' = tasks \cup
                 {Task(tasks, "handleSendMessage", SendChatMessageStart(input, sessionId),
                       sessionId, input)}
            /\ UNCHANGED <<applicationProgress, sessionId, sessionInitializedRef,
                           sessions, currentSessionId, storage, issued, sendsOk,
                           sendsFailed, progressGiven>>

\* the Retry Connection button: shown with the connection-error flag, disabled while
\* processing; onClick={initializeSession}
retryConnection ==
  /\ connectionError
  /\ ~isProcessing
  /\ nActions < MaxActions
  /\ nActions' = nActions + 1
  /\ LET runs == InitializeSessionRuns(isProcessing, sessionId)
     IN /\ isProcessing' = (IF runs THEN TRUE ELSE isProcessing)
        /\ connectionError' = (IF runs THEN FALSE ELSE connectionError)
        /\ tasks' = InitializeSessionTasks(runs, tasks)
  /\ op' = Op("retryConnection", sessionId)
  /\ UNCHANGED <<siteVars, homeV2Vars>>
  /\ UNCHANGED <<messages, input, applicationProgress, sessionId, sessionInitializedRef,
                 sessions, currentSessionId, storage, issued, sendsOk, sendsFailed, progressGiven>>

\* ------------------------------------------- ChatInterface, continuations
homeVars == <<sessions, currentSessionId, storage>>

\* what ran last: the continuation of a handler of the mounted ChatInterface with the
\* outcome of its request, or a continuation of a detached handler
Ran(t, name, err, reply) ==
  IF t.mounted
    THEN [Op(name, IF err = Undefined THEN "ok" ELSE "failed") EXCEPT !.reply = reply]
    ELSE Op("detached", name)

\* createSession of initializeSession settles
initializeSessionSettled(t, err) ==
  /\ t \in tasks
  /\ t.fn = "initializeSession"
  /\ op' = Ran(t, "initializeSessionSettled", err, NoReply)
  /\ UNCHANGED <<siteVars, homeV2Vars>>
  /\ UNCHANGED <<sessions, storage, nActions>>
  /\ IF err = Undefined
       THEN \* a handle is issued: setSessionId, onSessionCreated
            /\ issued' = issued + 1
            /\ LET h == Handle(issued + 1)
                   ts == tasks \ {t}
               IN /\ currentSessionId' = h
                  /\ IF Key(h) # Key(currentSessionId)
                       THEN Mount(h, ts)
                       ELSE /\ tasks' = ts
                            /\ sessionId' = (IF t.mounted THEN h ELSE sessionId)
                            /\ isProcessing' = (IF t.mounted THEN FALSE ELSE isProcessing)
                            /\ UNCHANGED <<messages, input, applicationProgress,
                                           connectionError, sessionInitializedRef,
                                           sendsOk, sendsFailed, progressGiven>>
       ELSE /\ tasks' = tasks \ {t}
            /\ UNCHANGED <<issued, currentSessionId>>
            /\ IF t.mounted
                 THEN /\ connectionError' = (IsConnectionIssue(err) \/ connectionError)
                      /\ sessionInitializedRef' = FALSE
                      /\ messages' = Append(messages,
                           Message("error_init", "bot", ErrorText(err), Undefined))
                      /\ isProcessing' = FALSE
                      /\ UNCHANGED <<input, applicationProgress, sessionId, sendsOk,
                                     sendsFailed, progressGiven>>
                 ELSE UNCHANGED chatVars

\* getSessionStatus of loadSessionMessages settles
loadSessionMessagesSettled(t, err) ==
  /\ t \in tasks
  /\ t.fn = "loadSessionMessages"
  /\ op' = Ran(t, "loadSessionMessagesSettled", err, NoReply)
  /\ UNCHANGED <<siteVars, homeV2Vars>>
  /\ UNCHANGED <<homeVars, issued, nActions>>
  /\ LET \* the catch block calls initializeSession() of the render that ran the effect
         runs == err # Undefined /\ t.mounted /\ InitializeSessionRuns(FALSE, t.sessionId)
     IN /\ tasks' = InitializeSessionTasks(runs, tasks \ {t})
        /\ IF t.mounted
             THEN /\ messages' = (IF err = Undefined THEN <<LoadedMessage>>
                                  ELSE <<Message("error_load", "bot", LoadErrorText(err),
                                                 Undefined)>>)
                  /\ sessionInitializedRef' =
                       (IF err = Undefined THEN sessionInitializedRef ELSE FALSE)
                  /\ connectionError' = (IF runs THEN FALSE ELSE connectionError)
                  /\ isProcessing' = FALSE
                  /\ UNCHANGED <<input, applicationProgress, sessionId, sendsOk,
                                 sendsFailed, progressGiven>>
             ELSE UNCHANGED chatVars

\* the catch block without the finally block: the processing flag is left set
SendFailed_NoFinally(t, err) ==
  IF t.mounted
    THEN /\ connectionError' = (IsConnectionIssue(err) \/ connectionError)
         /\ messages' = Append(messages, Message("error_", "bot", ErrorText(err), Undefined))
         /\ sendsFailed' = sendsFailed + 1
         /\ UNCHANGED <<input, isProcessing, applicationProgress, sessionId,
                        sessionInitializedRef, sendsOk, progressGiven>>
    ELSE UNCHANGED chatVars

\* the catch block with setMessages([errorMessage]), as loadSessionMessages has it
SendFailed_ReplacesLog(t, err) ==
  IF t.mounted
    THEN /\ connectionError' = (IsConnectionIssue(err) \/ connectionError)
         /\ messages' = <<Message("error_", "bot", ErrorText(err), Undefined)>>
         /\ isProcessing' = FALSE
         /\ sendsFailed' = sendsFailed + 1
         /\ UNCHANGED <<input, applicationProgress, sessionId, sessionInitializedRef,
                        sendsOk, progressGiven>>
    ELSE UNCHANGED chatVars

\* the catch and finally blocks of handleSendMessage
SendFailed(t, err) ==
  IF t.mounted
    THEN /\ connectionError' = (IsConnectionIssue(err) \/ connectionError)
         /\ messages' = Append(messages, Message("error_", "bot", ErrorText(err), Undefined))
         /\ isProcessing' = FALSE
         /\ sendsFailed' = sendsFailed + 1
         /\ UNCHANGED <<input, applicationProgress, sessionId, sessionInitializedRef,
                        sendsOk, progressGiven>>
    ELSE UNCHANGED chatVars

\* the message request with the handle sendChatMessage was called with
SendChatMessageNext_StaleHandle(t, h) ==
  [t EXCEPT !.req = Request("message", t.sessionId, t.userInput)]

\* sendChatMessage after createSession: the message request with the handle returned
SendChatMessageNext(t, h) == [t EXCEPT !.req = Request("message", h, t.userInput)]

\* createSession inside sendChatMessage settles: the message request follows with the
\* handle returned, or the error is returned to handleSendMessage
sendChatMessageCreateSettled(t, err) ==
  /\ t \in tasks
  /\ t.fn = "handleSendMessage"
  /\ t.req.kind = "create"
  /\ op' = Ran(t, "sendChatMessageCreateSettled", err, NoReply)
  /\ UNCHANGED <<siteVars, homeV2Vars>>
  /\ UNCHANGED <<homeVars, nActions>>
  /\ IF err = Undefined
       THEN /\ issued' = issued + 1
            /\ tasks' = (tasks \ {t}) \cup {SendChatMessageNext(t, Handle(issued + 1))}
            /\ UNCHANGED chatVars
       ELSE /\ tasks' = tasks \ {t}
            /\ UNCHANGED issued
            /\ SendFailed(t, err)

\* the replies the backend can give to a message request
Replies(sid) ==
  [session_id : {Undefined, sid}, response : Bodies, progress : ProgressValues]

\* the try block appending the reply in the place of the user entry
SendSucceeded_DropsUser(t, reply) ==
  IF t.mounted
    THEN LET r == Render(reply.response)
         IN /\ sessionId' = (IF Truthy(reply.session_id) THEN reply.session_id
                             ELSE sessionId)
            /\ messages' = Append(SubSeq(messages, 1, Len(messages) - 1),
                                  Message("bot_", "bot", r.text, r.bureauDecision))
            /\ applicationProgress' =
                 NextProgress(applicationProgress, reply.progress, r.bureauDecision)
            /\ isProcessing' = FALSE
            /\ sendsOk' = sendsOk + 1
            /\ progressGiven' = (progressGiven \/ (reply.progress # NoProgress /\ reply.progress # 0))
            /\ UNCHANGED <<input, connectionError, sessionInitializedRef, sendsFailed>>
    ELSE UNCHANGED chatVars

\* the try block of handleSendMessage after a reply
SendSucceeded(t, reply) ==
  IF t.mounted
    THEN LET r == Render(reply.response)
         IN /\ sessionId' = (IF Truthy(reply.session_id) THEN reply.session_id
                             ELSE sessionId)
            /\ messages' = Append(messages, Message("bot_", "bot", r.text, r.bureauDecision))
            /\ applicationProgress' =
                 NextProgress(applicationProgress, reply.progress, r.bureauDecision)
            /\ isProcessing' = FALSE
            /\ sendsOk' = sendsOk + 1
            /\ progressGiven' = (progressGiven \/ (reply.progress # NoProgress /\ reply.progress # 0))
            /\ UNCHANGED <<input, connectionError, sessionInitializedRef, sendsFailed>>
    ELSE UNCHANGED chatVars

\* the message request of sendChatMessage fails
handleSendMessageFailed(t, err) ==
  /\ t \in tasks
  /\ t.fn = "handleSendMessage"
  /\ t.req.kind = "message"
  /\ op' = Ran(t, "handleSendMessageSettled", err, NoReply)
  /\ UNCHANGED <<siteVars, homeV2Vars>>
  /\ UNCHANGED <<homeVars, issued, nActions>>
  /\ tasks' = tasks \ {t}
  /\ SendFailed(t, err)

\* the message request of sendChatMessage is answered
handleSendMessageSettled(t, reply) ==
  /\ t \in tasks
  /\ t.fn = "handleSendMessage"
  /\ t.req.kind = "message"
  /\ reply \in Replies(t.req.session_id)
  /\ op' = Ran(t, "handleSendMessageSettled", Undefined, reply)
  /\ UNCHANGED <<siteVars, homeV2Vars>>
  /\ UNCHANGED <<homeVars, issued, nActions>>
  /\ tasks' = tasks \ {t}
  /\ SendSucceeded(t, reply)

Next ==
  \/ \E text \in Inputs : setInput(text)
  \/ handleSendMessage
  \/ retryConnection
  \/ handleCreateNewSession
  \/ \E i \in 1..Len(sessions) : handleSessionSelect(sessions[i])
  \/ \E i \in 1..Len(sessions) : handleDeleteSession(sessions[i])
  \/ \E t \in tasks, err \in Errors \cup {Undefined} : initializeSessionSettled(t, err)
  \/ \E t \in tasks, err \in Errors \cup {Undefined} : loadSessionMessagesSettled(t, err)
  \/ \E t \in tasks, err \in Errors \cup {Undefined} : sendChatMessageCreateSettled(t, err)
  \/ \E t \in tasks, err \in Errors : handleSendMessageFailed(t, err)
  \/ \E t \in tasks : \E reply \in Replies(t.req.session_id) :
       handleSendMessageSettled(t, reply)

Spec == Init /\ [][Next]_vars

\* ============================================================ the site
\* --------------------------------------------------------------- middleware
\* config.matcher: the paths the middleware runs for
Paths == {"/", "/login"}

\* the values of the auth_token cookie of a request: none, empty, a token
CookieValues == {Undefined, "", Token}

\* the search params doctorId and doctor_name a request can carry
Queries == {[doctorId |-> Null, doctor_name |-> Null],
            [doctorId |-> DoctorId, doctor_name |-> DoctorName],
            [doctorId |-> DoctorId, doctor_name |-> Null]}

\* the gate on the presence of the cookie, whatever its value
Middleware_AnyCookie(pathname, token, doctorId, doctorName) ==
  LET isLoginPage == pathname = "/login"
  IN IF token = Undefined /\ ~isLoginPage
       THEN [kind |-> "redirect",
             location |-> Page("/login", IF Truthy(doctorId) THEN doctorId ELSE Null,
                               IF Truthy(doctorName) THEN doctorName ELSE Null)]
       ELSE IF token # Undefined /\ isLoginPage
              THEN [kind |-> "redirect", location |-> Page("/", Null, Null)]
              ELSE [kind |-> "next", location |-> Page(pathname, doctorId, doctorName)]

\* middleware(request), token being request.cookies.get('auth_token')?.value: a redirect
\* with its Location, or NextResponse.next()
Middleware(pathname, token, doctorId, doctorName) ==
  LET isLoginPage == pathname = "/login"
  IN IF ~Truthy(token) /\ ~isLoginPage
       THEN [kind |-> "redirect",
             location |-> Page("/login", IF Truthy(doctorId) THEN doctorId ELSE Null,
                               IF Truthy(doctorName) THEN doctorName ELSE Null)]
       ELSE IF Truthy(token) /\ isLoginPage
              THEN [kind |-> "redirect", location |-> Page("/", Null, Null)]
              ELSE [kind |-> "next", location |-> Page(pathname, doctorId, doctorName)]

\* the document the browser ends at: it follows the redirects, each request passing the
\* middleware with the same cookie
RECURSIVE Served(_, _)
Served(location, token) ==
  LET r == Middleware(location.pathname, token, location.doctorId, location.doctor_name)
  IN IF r.kind = "redirect" THEN Served(r.location, token) ELSE r.location

\* ------------------------------------------------------------ relay routes
\* the body of a request to a relay route, as req.json() gives it: kind "throws" when it
\* is not JSON, "null" for the JSON null, else an object with its fields (Undefined for
\* a field that is not there)
Body(kind, phone, otp, doctorId, doctorName, message, sid) ==
  [kind |-> kind, phone_number |-> phone, otp |-> otp, doctorId |-> doctorId,
   doctorName |-> doctorName, message |-> message, session_id |-> sid]

NotJsonBody ==
  Body("throws", Undefined, Undefined, Undefined, Undefined, Undefined, Undefined)

NullJsonBody ==
  Body("null", Undefined, Undefined, Undefined, Undefined, Undefined, Undefined)

\* a phone number sent as a JSON number
NumberPhone == "(number 9876543210)"

\* typeof v === "string", of the values a field takes here
IsString(v) == v \notin {Undefined, Null, NumberPhone}

Otp == "123456"

\* the bodies a client can post to the send-otp route
SendOtpBodies ==
  {NotJsonBody, NullJsonBody} \cup
  {Body("object", ph, Undefined, Undefined, Undefined, Undefined, Undefined) :
     ph \in {Undefined, "", Phone, NumberPhone}}

\* the bodies a client can post to the verify-otp route
VerifyOtpBodies ==
  {NotJsonBody, NullJsonBody} \cup
  {Body("object", ph, o, d[1], d[2], Undefined, Undefined) :
     ph \in {Undefined, "", Phone}, o \in {Undefined, "", Otp},
     d \in {<<Undefined, Undefined>>, <<DoctorId, DoctorName>>}}

\* the bodies a client can post to the message route
MessageBodies ==
  {NotJsonBody, NullJsonBody} \cup
  {Body("object", Undefined, Undefined, Undefined, Undefined, m, sid) :
     m \in {Undefined, "", "Hello"}, sid \in {Undefined, "", "S1"}}

\* what the backend does with the request of a relay route: fetch throws, or a response
\* with its status and its body as response.json() gives it (kind as for a request
\* body, with the fields token, error and message)
BackendData(kind, token, error, message) ==
  [kind |-> kind, token |-> token, error |-> error, message |-> message]

BackendThrows ==
  [kind |-> "throws", ok |-> FALSE, status |-> 0,
   data |-> BackendData("throws", Undefined, Undefined, Undefined)]

BackendDatas ==
  {BackendData("throws", Undefined, Undefined, Undefined),
   BackendData("null", Undefined, Undefined, Undefined),
   BackendData("object", Undefined, Undefined, Undefined),
   BackendData("object", Token, Undefined, "OTP verified"),
   BackendData("object", Undefined, "Invalid or expired OTP", "Rejected")}

BackendOutcomes ==
  {BackendThrows} \cup
  {[kind |-> "response", ok |-> st = 200, status |-> st, data |-> d] :
     st \in {200, 400, 500}, d \in BackendDatas}

\* the response of a relay route: status, the error field of its body, the token field of
\* its body, the cookies it sets (Undefined for a cookie it does not set), and whether
\* it sent a request to the backend
RouteResponse(status, error, token, setCookie, called) ==
  [status |-> status, error |-> error, token |-> token, setCookie |-> setCookie,
   backendCalled |-> called]

RouteError(status, error, called) == RouteResponse(status, error, Undefined, NoCookies, called)

\* the value of a cookie set with cookieStore.set(name, value): undefined is written as
\* the empty value
CookieValue(v) == IF v = Undefined THEN "" ELSE v

\* the verify-otp route that sets the cookies before it looks at the status
VerifyOtpRoute_CookiesFirst(body, backend) ==
  IF body.kind # "object"
    THEN RouteError(500, "Something went wrong", FALSE)
  ELSE IF ~Truthy(body.phone_number) \/ ~Truthy(body.otp)
    THEN RouteError(400, "Phone number and OTP are required", FALSE)
  ELSE IF backend.kind = "throws" \/ backend.data.kind \in {"throws", "null"}
    THEN RouteError(500, "Something went wrong", TRUE)
  ELSE IF ~backend.ok
    THEN RouteResponse(backend.status,
                       IF Truthy(backend.data.error) THEN backend.data.error
                       ELSE "Invalid OTP",
                       Undefined,
                       Cookies(CookieValue(backend.data.token), body.phone_number,
                               Undefined, Undefined),
                       TRUE)
  ELSE RouteResponse(200, Undefined, backend.data.token,
                     Cookies(CookieValue(backend.data.token), body.phone_number,
                             IF Truthy(body.doctorId) THEN body.doctorId ELSE Undefined,
                             IF Truthy(body.doctorName) THEN body.doctorName ELSE Undefined),
                     TRUE)

\* POST of /api/login/verify-otp.  req.json() of a body that is not JSON and the
\* destructuring of null throw, as do fetch, response.json() of a body that is not JSON
\* (the response.text() that follows rejects, the body being used) and data.error or
\* data.token of null: the outer catch answers 500
VerifyOtpRoute(body, backend) ==
  IF body.kind # "object"
    THEN RouteError(500, "Something went wrong", FALSE)
  ELSE IF ~Truthy(body.phone_number) \/ ~Truthy(body.otp)
    THEN RouteError(400, "Phone number and OTP are required", FALSE)
  ELSE IF backend.kind = "throws" \/ backend.data.kind \in {"throws", "null"}
    THEN RouteError(500, "Something went wrong", TRUE)
  ELSE IF ~backend.ok
    THEN RouteError(backend.status,
                    IF Truthy(backend.data.error) THEN backend.data.error ELSE "Invalid OTP",
                    TRUE)
  ELSE RouteResponse(200, Undefined, backend.data.token,
                     Cookies(CookieValue(backend.data.token), body.phone_number,
                             IF Truthy(body.doctorId) THEN body.doctorId ELSE Undefined,
                             IF Truthy(body.doctorName) THEN body.doctorName ELSE Undefined),
                     TRUE)

\* the send-otp route that asks the backend before it validates
SendOtpRoute_BackendFirst(body, backend) ==
  IF body.kind # "object"
    THEN RouteError(500, "Internal server error", FALSE)
  ELSE IF ~Truthy(body.phone_number) \/ ~IsString(body.phone_number)
    THEN RouteError(400, "Phone number is required", TRUE)
  ELSE IF backend.kind = "throws" \/ backend.data.kind \in {"throws", "null"}
    THEN RouteError(500, "Internal server error", TRUE)
  ELSE IF ~backend.ok
    THEN RouteError(backend.status,
                    IF Truthy(backend.data.error) THEN backend.data.error
                    ELSE "Failed to send OTP",
                    TRUE)
  ELSE RouteResponse(200, Undefined, Undefined, NoCookies, TRUE)

\* POST of /api/login/send-otp; a success body null is relayed as it is
SendOtpRoute(body, backend) ==
  IF body.kind # "object"
    THEN RouteError(500, "Internal server error", FALSE)
  ELSE IF ~Truthy(body.phone_number) \/ ~IsString(body.phone_number)
    THEN RouteError(400, "Phone number is required", FALSE)
  ELSE IF backend.kind = "throws" \/ backend.data.kind = "throws"
    THEN RouteError(500, "Internal server error", TRUE)
  ELSE IF ~backend.ok
    THEN IF backend.data.kind = "null"
           THEN RouteError(500, "Internal server error", TRUE)
           ELSE RouteError(backend.status,
                           IF Truthy(backend.data.error) THEN backend.data.error
                           ELSE "Failed to send OTP",
                           TRUE)
  ELSE RouteResponse(200, Undefined, Undefined, NoCookies, TRUE)

\* POST of the message route: the error of its body is the field message
MessageRoute(body, backend) ==
  IF body.kind # "object"
    THEN RouteError(500, "Unexpected token", FALSE)
  ELSE IF ~Truthy(body.message)
    THEN RouteError(400, "Message is required", FALSE)
  ELSE IF ~Truthy(body.session_id)
    THEN RouteError(400, "Session ID is required", FALSE)
  ELSE IF backend.kind = "throws"
    THEN RouteError(500, "fetch failed", TRUE)
  ELSE IF backend.data.kind = "throws"
    THEN RouteError(500, "Unexpected token", TRUE)
  ELSE IF ~backend.ok
    THEN IF backend.data.kind = "null"
           THEN RouteError(500, "Cannot read properties of null", TRUE)
           ELSE RouteError(backend.status,
                           IF Truthy(backend.data.message) THEN backend.data.message
                           ELSE "Failed to send message",
                           TRUE)
  ELSE RouteResponse(200, Undefined, Undefined, NoCookies, TRUE)

\* the cookies of the browser after a response that sets some
SetCookies(jar, setCookie) ==
  [n \in DOMAIN jar |-> IF setCookie[n] # Undefined THEN setCookie[n] ELSE jar[n]]

\* ------------------------------------------- requests to the server side
\* the variables of the chat, which no request to a route or to the middleware touches
chatState == <<messages, input, isProcessing, applicationProgress, sessionId,
               connectionError, sessionInitializedRef, sessions, currentSessionId,
               storage, issued, sendsOk, sendsFailed, progressGiven>>

\* the chat as a page load leaves it
ChatInitial ==
  /\ messages = <<WelcomeMessage>>
  /\ input = ""
  /\ isProcessing = FALSE
  /\ applicationProgress = InitialProgress
  /\ sessionId = Undefined
  /\ connectionError = FALSE
  /\ sessionInitializedRef = FALSE
  /\ sessions = << >>
  /\ currentSessionId = Undefined
  /\ storage = [present |-> FALSE, list |-> << >>]
  /\ issued = 0
  /\ sendsOk = 0
  /\ sendsFailed = 0
  /\ progressGiven = FALSE
  /\ now = 0
  /\ chatCount = 0

\* a request a client sends to the server side, with what the backend will do with the
\* request the route sends it, and the response once the route has run
ServerOp(name, route, request, backend, response) ==
  [name |-> name, arg |-> route, reply |-> NoReply, active |-> Undefined,
   request |-> request, backend |-> backend, response |-> response]

\* the response of a request that is still to be answered
NoResponse == [kind |-> "none"]

\* a request for a page: pathname, search params and auth_token cookie
PageRequests ==
  {[pathname |-> p, doctorId |-> q.doctorId, doctor_name |-> q.doctor_name, token |-> c] :
     p \in Paths, q \in Queries, c \in CookieValues}

\* the requests of a client: a page through the middleware, or a POST to a route
ServerRequests ==
  {ServerOp("request", "middleware", r, BackendThrows, NoResponse) : r \in PageRequests}
  \cup {ServerOp("request", "send-otp", b, o, NoResponse) :
          b \in SendOtpBodies, o \in BackendOutcomes}
  \cup {ServerOp("request", "verify-otp", b, o, NoResponse) :
          b \in VerifyOtpBodies, o \in BackendOutcomes}
  \cup {ServerOp("request", "message", b, o, NoResponse) :
          b \in MessageBodies, o \in BackendOutcomes}

\* a client, with or without the cookies of a signed-in user, is about to send a request
InitRoutes ==
  /\ ChatInitial
  /\ tasks = {}
  /\ nActions = 0
  /\ cookies \in {NoCookies, Cookies(Token, Phone, Undefined, Undefined)}
  /\ local = Local(Null, Null, Null, Null, Null)
  /\ auth = SignedOut
  /\ page = Page("/login", Null, Null)
  /\ login = LoginInitial
  /\ op \in ServerRequests

\* what a request to the server side leaves alone
RouteUnchanged == UNCHANGED <<chatState, tasks, nActions, local, auth, page, login, now, chatCount>>

\* the middleware answers the request for a page
middleware ==
  /\ op.name = "request"
  /\ op.arg = "middleware"
  /\ LET r == op.request
     IN op' = [op EXCEPT !.name = "middleware",
                         !.response = Middleware(r.pathname, r.token, r.doctorId,
                                                 r.doctor_name)]
  /\ UNCHANGED cookies
  /\ RouteUnchanged

\* the send-otp route answers
POST_send_otp ==
  /\ op.name = "request"
  /\ op.arg = "send-otp"
  /\ LET r == SendOtpRoute(op.request, op.backend)
     IN /\ op' = [op EXCEPT !.name = "POST_send_otp", !.response = r]
        /\ cookies' = SetCookies(cookies, r.setCookie)
  /\ RouteUnchanged

\* the verify-otp route answers
POST_verify_otp ==
  /\ op.name = "request"
  /\ op.arg = "verify-otp"
  /\ LET r == VerifyOtpRoute(op.request, op.backend)
     IN /\ op' = [op EXCEPT !.name = "POST_verify_otp", !.response = r]
        /\ cookies' = SetCookies(cookies, r.setCookie)
  /\ RouteUnchanged

\* the message route answers
POST_message ==
  /\ op.name = "request"
  /\ op.arg = "message"
  /\ LET r == MessageRoute(op.request, op.backend)
     IN /\ op' = [op EXCEPT !.name = "POST_message", !.response = r]
        /\ cookies' = SetCookies(cookies, r.setCookie)
  /\ RouteUnchanged

NextRoutes ==
  \/ middleware
  \/ POST_send_otp
  \/ POST_verify_otp
  \/ POST_message

SpecRoutes == InitRoutes /\ [][NextRoutes]_vars

\* -------------------------------------------------- the browser: signing in and out
\* the user starts at most this many requests and page loads
MaxSiteActions == 4

\* what the user types into the phone field: nothing, too few digits, a phone number
Phones == {"", "98765", Phone}

\* what the user types into the code field
Otps == {"", Otp}

\* phone.length of the values of Phones
Length(phone) == IF phone = "" THEN 0 ELSE IF phone = "98765" THEN 5 ELSE 10

\* localStorage.setItem(key, value) stores String(value)
Stored(v) == IF v = Undefined THEN "'undefined'" ELSE IF v = Null THEN "'null'" ELSE v

\* the mount effect of AuthProvider
AuthProviderMount(l) ==
  IF Truthy(l.auth_token) /\ Truthy(l.phone_number)
    THEN Auth(TRUE, l.auth_token, l.phone_number, l.doctor_id, l.doctor_name)
    ELSE SignedOut

\* a handler suspended at its fetch, or a timer: the values of its closure and the
\* request that was sent
SiteTask(ts, fn, closure, sent) ==
  [id |-> FreshId(ts), fn |-> fn, req |-> Request(fn, Undefined, Undefined),
   mounted |-> TRUE, sessionId |-> Undefined, userInput |-> Undefined,
   closure |-> closure, sent |-> sent]

\* the closure of a handler: the phone field and the doctor of the page or the provider
Closure(phone, doctorId, doctorName) ==
  [phone |-> phone, doctorId |-> doctorId, doctorName |-> doctorName]

\* the handlers of the login page
LoginPageHandlers == {"sendOtp", "verifyOtp"}

\* router.push(target): the middleware answers the request for the target, the login
\* page mounts when the route changes to it, and the handlers of a page run on detached
\* when the route changes away from it
Push(target, jar, ts) ==
  LET served == Served(target, jar.auth_token)
  IN [page |-> served,
      login |-> IF served.pathname = "/login" /\ page.pathname = "/login"
                  THEN login ELSE LoginInitial,
      tasks |-> {IF \/ t.fn \in LoginPageHandlers /\ served.pathname # "/login"
                    \/ t.fn \in ChatHandlers /\ served.pathname # "/"
                   THEN [t EXCEPT !.mounted = FALSE]
                   ELSE t : t \in ts}]

\* a handler that sent no request
NoRequest == [kind |-> "none"]

\* what a fetch of the page gives: a response of the route, or a rejection
Rejected == [kind |-> "rejected"]

\* the user opens a location: the document is loaded anew, everything that was running
\* is gone, and the provider reads the stored credentials
load(pathname, query) ==
  /\ nActions < MaxSiteActions
  /\ nActions' = nActions + 1
  /\ page' = Served(Page(pathname, query.doctorId, query.doctor_name), cookies.auth_token)
  /\ auth' = AuthProviderMount(local)
  /\ login' = LoginInitial
  /\ tasks' = {}
  /\ op' = ServerOp("load", pathname, Page(pathname, query.doctorId, query.doctor_name),
                    BackendThrows, NoResponse)
  /\ UNCHANGED <<chatState, cookies, local, now, chatCount>>

\* the phone field, enabled until a code was sent
setPhone(phone) ==
  /\ page.pathname = "/login"
  /\ ~login.otpSent
  /\ phone # login.phone
  /\ login' = [login EXCEPT !.phone = phone]
  /\ op' = ServerOp("setPhone", phone, NoRequest, BackendThrows, NoResponse)
  /\ UNCHANGED <<chatState, tasks, nActions, cookies, local, auth, page, now, chatCount>>

\* the code field, shown once a code was sent
setOtp(otp) ==
  /\ page.pathname = "/login"
  /\ login.otpSent
  /\ otp # login.otp
  /\ login' = [login EXCEPT !.otp = otp]
  /\ op' = ServerOp("setOtp", otp, NoRequest, BackendThrows, NoResponse)
  /\ UNCHANGED <<chatState, tasks, nActions, cookies, local, auth, page, now, chatCount>>

\* the button "Change Phone Number"
setOtpSent ==
  /\ page.pathname = "/login"
  /\ login.otpSent
  /\ ~login.isLoading
  /\ login' = [login EXCEPT !.otpSent = FALSE]
  /\ op' = ServerOp("setOtpSent", "false", NoRequest, BackendThrows, NoResponse)
  /\ UNCHANGED <<chatState, tasks, nActions, cookies, local, auth, page, now, chatCount>>

\* sendOtp, up to its fetch
sendOtp ==
  /\ page.pathname = "/login"
  /\ ~login.otpSent
  /\ ~login.isLoading
  /\ nActions < MaxSiteActions
  /\ nActions' = nActions + 1
  /\ IF ~Truthy(login.phone) \/ Length(login.phone) < 10
       THEN /\ op' = ServerOp("sendOtp", "Invalid phone number", NoRequest, BackendThrows,
                              NoResponse)
            /\ UNCHANGED <<tasks, login>>
       ELSE LET body == Body("object", login.phone, Undefined, Undefined, Undefined,
                             Undefined, Undefined)
            IN /\ login' = [login EXCEPT !.isLoading = TRUE]
               /\ tasks' = tasks \cup {SiteTask(tasks, "sendOtp",
                                                Closure(login.phone, page.doctorId,
                                                        page.doctor_name), body)}
               /\ op' = ServerOp("sendOtp", login.phone, body, BackendThrows, NoResponse)
  /\ UNCHANGED <<chatState, cookies, local, auth, page, now, chatCount>>

\* sendOtp, from the answer of its fetch on
sendOtpSettled(t, backend, rejected) ==
  /\ t \in tasks
  /\ t.fn = "sendOtp"
  /\ LET r == IF rejected THEN Rejected ELSE SendOtpRoute(t.sent, backend)
         ok == ~rejected /\ r.status = 200
     IN /\ login' = IF t.mounted
                      THEN [login EXCEPT !.isLoading = FALSE,
                                         !.otpSent = IF ok THEN TRUE ELSE @]
                      ELSE login
        /\ op' = ServerOp("sendOtpSettled", IF ok THEN "ok" ELSE "failed", t.sent,
                          backend, r)
  /\ tasks' = tasks \ {t}
  /\ UNCHANGED <<chatState, nActions, cookies, local, auth, page, now, chatCount>>

\* verifyOtp, up to its fetch
verifyOtp ==
  /\ page.pathname = "/login"
  /\ login.otpSent
  /\ ~login.isLoading
  /\ nActions < MaxSiteActions
  /\ nActions' = nActions + 1
  /\ IF ~Truthy(login.otp)
       THEN /\ op' = ServerOp("verifyOtp", "OTP Required", NoRequest, BackendThrows,
                              NoResponse)
            /\ UNCHANGED <<tasks, login>>
       ELSE LET body == Body("object", login.phone, login.otp, page.doctorId,
                             page.doctor_name, Undefined, Undefined)
            IN /\ login' = [login EXCEPT !.isLoading = TRUE]
               /\ tasks' = tasks \cup {SiteTask(tasks, "verifyOtp",
                                                Closure(login.phone, page.doctorId,
                                                        page.doctor_name), body)}
               /\ op' = ServerOp("verifyOtp", login.otp, body, BackendThrows, NoResponse)
  /\ UNCHANGED <<chatState, cookies, local, auth, page, now, chatCount>>

\* login of AuthProvider
LoginLocal(l, token, phone, doctorId, doctorName) ==
  [l EXCEPT !.auth_token = Stored(token),
            !.phone_number = Stored(phone),
            !.doctor_id = IF Truthy(doctorId) THEN doctorId ELSE @,
            !.doctor_name = IF Truthy(doctorName) THEN doctorName ELSE @]

LoginAuth(a, token, phone, doctorId, doctorName) ==
  Auth(TRUE, token, phone,
       IF Truthy(doctorId) THEN doctorId ELSE a.doctorId,
       IF Truthy(doctorName) THEN doctorName ELSE a.doctorName)

\* verifyOtp, from the answer of its fetch on: the browser stores the cookies of the
\* response, and on success login() runs and the timer of the redirect is set
verifyOtpSettled(t, backend, rejected) ==
  /\ t \in tasks
  /\ t.fn = "verifyOtp"
  /\ LET r == IF rejected THEN Rejected ELSE VerifyOtpRoute(t.sent, backend)
         ok == ~rejected /\ r.status = 200
         c == t.closure
     IN /\ cookies' = IF rejected THEN cookies ELSE SetCookies(cookies, r.setCookie)
        /\ local' = IF ok THEN LoginLocal(local, r.token, c.phone, c.doctorId, c.doctorName)
                    ELSE local
        /\ auth' = IF ok THEN LoginAuth(auth, r.token, c.phone, c.doctorId, c.doctorName)
                   ELSE auth
        /\ login' = IF t.mounted THEN [login EXCEPT !.isLoading = FALSE] ELSE login
        /\ tasks' = IF ok
                      THEN (tasks \ {t}) \cup {SiteTask(tasks, "redirect", c, t.sent)}
                      ELSE tasks \ {t}
        /\ op' = ServerOp("verifyOtpSettled", IF ok THEN "ok" ELSE "failed", t.sent,
                          backend, r)
  /\ UNCHANGED <<chatState, nActions, page, now, chatCount>>

\* the timer of verifyOtp: window.location.href = "/"
redirect(t) ==
  /\ t \in tasks
  /\ t.fn = "redirect"
  /\ page' = Served(Page("/", Null, Null), cookies.auth_token)
  /\ auth' = AuthProviderMount(local)
  /\ login' = LoginInitial
  /\ tasks' = {}
  /\ op' = ServerOp("redirect", "/", Page("/", Null, Null), BackendThrows, NoResponse)
  /\ UNCHANGED <<chatState, nActions, cookies, local, now, chatCount>>

\* logout of AuthProvider, up to its fetch; the request carries the cookies
logout ==
  /\ page.pathname = "/"
  /\ nActions < MaxSiteActions
  /\ nActions' = nActions + 1
  /\ local' = [local EXCEPT !.auth_token = Null, !.phone_number = Null,
                            !.doctor_id = Null, !.doctor_name = Null]
  /\ LET sent == Body("object", Undefined, Undefined, cookies.doctor_id,
                      cookies.doctor_name, Undefined, Undefined)
     IN /\ tasks' = tasks \cup {SiteTask(tasks, "logout",
                                         Closure(Undefined, auth.doctorId, auth.doctorName),
                                         sent)}
        /\ op' = ServerOp("logout", Undefined, sent, BackendThrows, NoResponse)
  /\ UNCHANGED <<chatState, cookies, auth, page, login, now, chatCount>>

\* POST of /api/logout: the four cookies are deleted and the doctor of the cookies is
\* returned
LogoutRoute(sent) ==
  [status |-> 200,
   doctorId |-> IF Truthy(sent.doctorId) THEN sent.doctorId ELSE Null,
   doctorName |-> IF Truthy(sent.doctorName) THEN sent.doctorName ELSE Null,
   setCookie |-> NoCookies]

\* what the fetch of logout gives: the response of the route, a response with an error
\* status that is not of the route, or a rejection
LogoutOutcomes == {"ok", "error", "rejected"}

\* logout, from the answer of its fetch on
logoutSettled(t, outcome) ==
  /\ t \in tasks
  /\ t.fn = "logout"
  /\ LET r == LogoutRoute(t.sent)
         logoutDoctorId == IF outcome = "ok" /\ Truthy(r.doctorId) THEN r.doctorId
                           ELSE t.closure.doctorId
         logoutDoctorName == IF outcome = "ok" /\ Truthy(r.doctorName) THEN r.doctorName
                             ELSE t.closure.doctorName
         target == IF Truthy(logoutDoctorId) /\ Truthy(logoutDoctorName)
                     THEN Page("/login", logoutDoctorId, logoutDoctorName)
                     ELSE Page("/login", Null, Null)
         jar == IF outcome = "ok" THEN NoCookies ELSE cookies
         pushed == Push(target, jar, tasks \ {t})
     IN /\ cookies' = jar
        /\ auth' = SignedOut
        /\ page' = pushed.page
        /\ login' = pushed.login
        /\ tasks' = pushed.tasks
        /\ op' = ServerOp("logoutSettled", outcome, t.sent, BackendThrows,
                          [kind |-> "navigation", location |-> target])
  /\ UNCHANGED <<chatState, nActions, local, now, chatCount>>

\* nobody is signed in and the login page is open
AtLogin ==
  /\ cookies = NoCookies
  /\ local = Local(Null, Null, Null, Null, Null)
  /\ auth = SignedOut
  /\ page = Page("/login", Null, Null)
  /\ login = LoginInitial

\* a document was loaded: the login page with nobody signed in, or the chat page with a
\* user signed in
InitAuth ==
  /\ ChatInitial
  /\ tasks = {}
  /\ nActions = 0
  /\ AtLogin \/ SignedIn
  /\ op = ServerOp("load", page.pathname, page, BackendThrows, NoResponse)

NextAuth ==
  \/ \E pathname \in Paths, query \in Queries : load(pathname, query)
  \/ \E phone \in Phones : setPhone(phone)
  \/ \E otp \in Otps : setOtp(otp)
  \/ setOtpSent
  \/ sendOtp
  \/ \E t \in tasks, backend \in BackendOutcomes, rejected \in BOOLEAN :
       sendOtpSettled(t, backend, rejected)
  \/ verifyOtp
  \/ \E t \in tasks, backend \in BackendOutcomes, rejected \in BOOLEAN :
       verifyOtpSettled(t, backend, rejected)
  \/ \E t \in tasks : redirect(t)
  \/ logout
  \/ \E t \in tasks, outcome \in LogoutOutcomes : logoutSettled(t, outcome)

SpecAuth == InitAuth /\ [][NextAuth]_vars

\* ------------------------- the second versions of HomeContent and ChatInterface
\* the chat page is shown
OnChatPage == page.pathname = "/"

\* Date.now() advances at most this far
MaxClock == 2

\* the chats after which HomeContent signs the user out
AutoLogoutAt == 10

\* `session_${Date.now()}`
ClientSessionId(time) == <<"session_0", "session_1", "session_2", "session_3">>[time + 1]

\* chatCount.toString()
ClientCount(n) == <<"0", "1", "2", "3", "4", "5", "6", "7", "8", "9">>[n + 1]

\* parseInt(storedChatCount, 10) of a stored count
ParseInt(stored) == CHOOSE n \in 0..9 : ClientCount(n) = stored

\* the counts that HomeContent finds stored when it mounts
StoredCounts == {0, 8, 9}

AutoLogout_KeepsCount(count) ==
  IF count >= AutoLogoutAt
    THEN [chatCount |-> 0, stored |-> ClientCount(count - 1), logout |-> TRUE]
    ELSE [chatCount |-> count, stored |-> ClientCount(count), logout |-> FALSE]

\* the effect on [chatCount], with the render that its setChatCount(0) causes: at the
\* tenth chat the count is reset and stored as 0 and logout() is called, else the count
\* is stored
AutoLogout(count) ==
  IF count >= AutoLogoutAt
    THEN [chatCount |-> 0, stored |-> "0", logout |-> TRUE]
    ELSE [chatCount |-> count, stored |-> ClientCount(count), logout |-> FALSE]

\* key={currentSessionId || 'default'}
Key2(sid) == IF Truthy(sid) THEN sid ELSE "default"

\* Date.now() advances
tick ==
  /\ now < MaxClock
  /\ now' = now + 1
  /\ op' = Op("tick", Undefined)
  /\ UNCHANGED <<chatState, tasks, nActions, siteVars, chatCount>>

\* a ChatInterface is mounted with the prop sessionId: currentSessionId starts as the
\* prop, and the effect on [currentSessionId] calls initializeSession() without one
Mount2(prop, ts) ==
  /\ messages' = <<WelcomeMessage>>
  /\ input' = ""
  /\ applicationProgress' = InitialProgress
  /\ sessionId' = (IF Truthy(prop) THEN prop ELSE Undefined)
  /\ connectionError' = FALSE
  /\ sendsOk' = 0
  /\ sendsFailed' = 0
  /\ progressGiven' = FALSE
  /\ IF ~Truthy(prop)
       THEN /\ sessionInitializedRef' = TRUE
            /\ isProcessing' = TRUE
            /\ tasks' = InitializeSessionTasks(InitializeSessionRuns(FALSE, Undefined),
                                              Unmount(ts))
       ELSE /\ sessionInitializedRef' = FALSE
            /\ isProcessing' = FALSE
            /\ tasks' = Unmount(ts)

\* HomeContent renders with a new current session: a changed key remounts ChatInterface
Render_Home2(new, ts) ==
  IF Key2(new) # Key2(currentSessionId)
    THEN Mount2(new, ts)
    ELSE /\ UNCHANGED chatVars
         /\ tasks' = ts

\* the button "new chat" of AppHeader and of ChatInterface: the id of the session is
\* made of the clock, the session is put first in the list and stored, it becomes the
\* current one, and the chats are counted; the effect on [chatCount] stores the count,
\* or at the tenth chat resets it, calls logout() and pushes /login
handleNewChat ==
  /\ page.pathname = "/"
  /\ nActions < MaxActions
  /\ nActions' = nActions + 1
  /\ LET newSessionId == ClientSessionId(now)
         updatedSessions == <<newSessionId>> \o sessions
     IN /\ sessions' = updatedSessions
        /\ storage' = [present |-> TRUE, list |-> updatedSessions]
        /\ currentSessionId' = newSessionId
        /\ op' = HomeOp("handleNewChat", newSessionId)
        /\ LET effect == AutoLogout(chatCount + 1)
           IN /\ chatCount' = effect.chatCount
              /\ IF effect.logout
                   THEN LET sent == Body("object", Undefined, Undefined, cookies.doctor_id,
                                         cookies.doctor_name, Undefined, Undefined)
                            ts == tasks \cup
                                    {SiteTask(tasks, "logout",
                                              Closure(Undefined, auth.doctorId,
                                                      auth.doctorName),
                                              sent)}
                        IN /\ local' = [local EXCEPT !.auth_token = Null,
                                                     !.phone_number = Null,
                                                     !.doctor_id = Null,
                                                     !.doctor_name = Null,
                                                     !.chat_count = effect.stored]
                           /\ page' = Served(Page("/login", Null, Null),
                                             cookies.auth_token)
                           /\ Render_Home2(newSessionId, ts)
                   ELSE /\ local' = [local EXCEPT !.chat_count = effect.stored]
                        /\ page' = page
                        /\ Render_Home2(newSessionId, tasks)
  /\ UNCHANGED <<issued, cookies, auth, login, now>>

\* a session of the history is chosen
handleSelectSession(sid) ==
  /\ page.pathname = "/"
  /\ nActions < MaxActions
  /\ nActions' = nActions + 1
  /\ currentSessionId' = sid
  /\ op' = HomeOp("handleSelectSession", sid)
  /\ Render_Home2(sid, tasks)
  /\ UNCHANGED <<sessions, storage, issued, siteVars, homeV2Vars>>

\* createSession of initializeSession settles: setCurrentSessionId of the handle
\* returned, or the error entry
initializeSessionSettled2(t, err) ==
  /\ t \in tasks
  /\ t.fn = "initializeSession"
  /\ op' = Ran(t, "initializeSessionSettled", err, NoReply)
  /\ tasks' = tasks \ {t}
  /\ issued' = (IF err = Undefined THEN issued + 1 ELSE issued)
  /\ IF t.mounted
       THEN /\ isProcessing' = FALSE
            /\ IF err = Undefined
                 THEN /\ sessionId' = Handle(issued + 1)
                      /\ UNCHANGED <<messages, connectionError, sessionInitializedRef>>
                 ELSE /\ connectionError' = (IsConnectionIssue(err) \/ connectionError)
                      /\ sessionInitializedRef' = FALSE
                      /\ messages' = Append(messages,
                           Message("error_init", "bot", ErrorText(err), Undefined))
                      /\ UNCHANGED sessionId
            /\ UNCHANGED <<input, applicationProgress, sendsOk, sendsFailed, progressGiven>>
       ELSE UNCHANGED chatVars
  /\ UNCHANGED <<homeVars, nActions, siteVars, homeV2Vars>>

\* HomeContent is mounted with no sessions stored: no current session, the count is the
\* stored one, and the ChatInterface it renders has called initializeSession()
InitV2 ==
  /\ messages = <<WelcomeMessage>>
  /\ input = ""
  /\ isProcessing = TRUE
  /\ applicationProgress = InitialProgress
  /\ sessionId = Undefined
  /\ connectionError = FALSE
  /\ sessionInitializedRef = TRUE
  /\ sessions = << >>
  /\ currentSessionId = Null
  /\ storage = [present |-> FALSE, list |-> << >>]
  /\ tasks = {Task({}, "initializeSession", CreateRequest, Undefined, Undefined)}
  /\ issued = 0
  /\ sendsOk = 0
  /\ sendsFailed = 0
  /\ progressGiven = FALSE
  /\ nActions = 0
  /\ op = Op("mount", Undefined)
  /\ cookies = Cookies(Token, Phone, Undefined, Undefined)
  /\ \E n \in StoredCounts : local = Local(Token, Phone, Null, Null, ClientCount(n))
  /\ auth = Auth(TRUE, Token, Phone, Null, Null)
  /\ page = Page("/", Null, Null)
  /\ login = LoginInitial
  /\ now = 0
  /\ chatCount = AutoLogout(ParseInt(local.chat_count)).chatCount

NextV2 ==
  \/ tick
  \/ OnChatPage /\ \E text \in Inputs : setInput(text)
  \/ OnChatPage /\ handleSendMessage
  \/ OnChatPage /\ retryConnection
  \/ handleNewChat
  \/ \E i \in 1..Len(sessions) : handleSelectSession(sessions[i])
  \/ \E t \in tasks, err \in Errors \cup {Undefined} : initializeSessionSettled2(t, err)
  \/ \E t \in tasks, err \in Errors \cup {Undefined} : sendChatMessageCreateSettled(t, err)
  \/ \E t \in tasks, err \in Errors : handleSendMessageFailed(t, err)
  \/ \E t \in tasks : \E reply \in Replies(t.req.session_id) :
       handleSendMessageSettled(t, reply)
  \/ \E t \in tasks, outcome \in LogoutOutcomes : logoutSettled(t, outcome)

SpecV2 == InitV2 /\ [][NextV2]_vars

\* ------------------------------------------------------------- the API hook
\* what the body of a response parses to: kind "throws" for a body that is not JSON,
\* "null" for the JSON value null, else an object with the fields the hook and its
\* callers read
ApiBody(kind, message, sid) == [kind |-> kind, message |-> message, session_id |-> sid]

ApiBodies ==
  {ApiBody("throws", Undefined, Undefined), ApiBody("null", Undefined, Undefined)}
  \cup {ApiBody("object", m, h) : m \in {Undefined, "", "Session not found"},
                                  h \in {Undefined, Handle(1)}}

\* what fetch gives: it rejects, with an Error or with a value that is no Error, or it
\* resolves with a response
FetchRejects(isError, message) ==
  [kind |-> "rejects", isError |-> isError, message |-> message, ok |-> FALSE,
   body |-> ApiBody("throws", Undefined, Undefined)]

FetchResponse(ok, body) ==
  [kind |-> "response", isError |-> FALSE, message |-> Undefined, ok |-> ok, body |-> body]

FetchOutcomes ==
  {FetchRejects(TRUE, "Failed to fetch"), FetchRejects(FALSE, Undefined)}
  \cup {FetchResponse(ok, b) : ok \in BOOLEAN, b \in ApiBodies}

\* { data, error, loading: false }, or an exception thrown to the caller
NoData == ApiBody("null", Undefined, Undefined)

ApiResult(data, error) == [data |-> data, error |-> error, loading |-> FALSE, throws |-> FALSE]

ApiThrows == [data |-> NoData, error |-> Null, loading |-> FALSE, throws |-> TRUE]

\* the texts of the errors made by the hook
SyntaxErrorText == "Unexpected token < in JSON at position 0"
UnknownErrorText == "An unknown error occurred"
FailedText(what) ==
  CASE what = "create session" -> "Failed to create session (500)"
    [] what = "send message" -> "Failed to send message (500)"
    [] what = "get session status" -> "Failed to get session status (500)"

\* the hook without its outer catch
Call_NoCatch(outcome, what) ==
  IF outcome.kind = "rejects" THEN ApiThrows
  ELSE IF ~outcome.ok
    THEN IF outcome.body.kind = "object"
           THEN ApiResult(NoData, IF Truthy(outcome.body.message) THEN outcome.body.message
                                  ELSE FailedText(what))
           ELSE ApiResult(NoData, "Server error: 500 Internal Server Error")
  ELSE IF outcome.body.kind = "throws" THEN ApiThrows
  ELSE ApiResult(outcome.body, Null)

\* the try and catch blocks that createSession, sendChatMessage (from its fetch on) and
\* getSessionStatus share: a response that is not ok gives the message of its body or a
\* text with the status, a response that is ok gives its parsed body as data, and what
\* fetch or response.json() throws gives the message of the error
Call(outcome, what) ==
  IF outcome.kind = "rejects"
    THEN ApiResult(NoData, IF outcome.isError THEN outcome.message ELSE UnknownErrorText)
  ELSE IF ~outcome.ok
    THEN IF outcome.body.kind = "object"
           THEN ApiResult(NoData, IF Truthy(outcome.body.message) THEN outcome.body.message
                                  ELSE FailedText(what))
           ELSE ApiResult(NoData, "Server error: 500 Internal Server Error")
  ELSE IF outcome.body.kind = "throws" THEN ApiResult(NoData, SyntaxErrorText)
  ELSE ApiResult(outcome.body, Null)

createSession(outcome) == Call(outcome, "create session")

getSessionStatus(sid, outcome) == Call(outcome, "get session status")

\* sendChatMessage: without a handle createSession first, whose error is returned
sendChatMessage(message, sid, created, outcome) ==
  IF ~Truthy(sid) /\ Truthy(createSession(created).error)
    THEN ApiResult(NoData, createSession(created).error)
    ELSE Call(outcome, "send message")

\* a call of the hook: the operation, its arguments, and what fetch will give to the
\* create-session request and to the request of the operation
ApiCalls ==
  {[fn |-> "createSession", message |-> Undefined, sessionId |-> Undefined,
    created |-> o, outcome |-> o] : o \in FetchOutcomes}
  \cup {[fn |-> "getSessionStatus", message |-> Undefined, sessionId |-> Handle(1),
         created |-> o, outcome |-> o] : o \in FetchOutcomes}
  \cup {[fn |-> "sendChatMessage", message |-> "Hello", sessionId |-> h,
         created |-> c, outcome |-> o] :
          h \in {Undefined, Handle(1)}, c \in FetchOutcomes, o \in FetchOutcomes}

\* a component is about to call the hook
InitApi ==
  /\ ChatInitial
  /\ tasks = {}
  /\ nActions = 0
  /\ SignedIn
  /\ \E c \in ApiCalls : op = ServerOp("call", c.fn, c, BackendThrows, NoResponse)

ApiUnchanged == UNCHANGED <<chatState, tasks, nActions, siteVars, homeV2Vars>>

callCreateSession ==
  /\ op.name = "call"
  /\ op.arg = "createSession"
  /\ op' = [op EXCEPT !.name = "returned", !.response = createSession(op.request.outcome)]
  /\ ApiUnchanged

callSendChatMessage ==
  /\ op.name = "call"
  /\ op.arg = "sendChatMessage"
  /\ LET c == op.request
     IN op' = [op EXCEPT !.name = "returned",
                         !.response = sendChatMessage(c.message, c.sessionId, c.created,
                                                      c.outcome)]
  /\ ApiUnchanged

callGetSessionStatus ==
  /\ op.name = "call"
  /\ op.arg = "getSessionStatus"
  /\ LET c == op.request
     IN op' = [op EXCEPT !.name = "returned",
                         !.response = getSessionStatus(c.sessionId, c.outcome)]
  /\ ApiUnchanged

NextApi ==
  \/ callCreateSession
  \/ callSendChatMessage
  \/ callGetSessionStatus

SpecApi == InitApi /\ [][NextApi]_vars

\* ------------------- the first HomeContent with the second version of logout
\* the document is loaded anew after window.location.href = "/login": on the chat page,
\* where the middleware sends a request that still carries the cookie, HomeContent
\* mounts with the stored sessions and a ChatInterface without handle; on the login
\* page nothing of the chat is left
Reload(served) ==
  IF served.pathname = "/"
    THEN /\ sessions' = (IF storage.present THEN storage.list ELSE << >>)
         /\ currentSessionId' = Undefined
         /\ Mount(Undefined, {})
    ELSE /\ tasks' = {}
         /\ UNCHANGED <<sessions, currentSessionId, chatVars>>

\* logout, second version, up to its fetch: the stored credentials and the stored
\* sessions are removed
logout2 ==
  /\ page.pathname = "/"
  /\ nActions < MaxActions
  /\ nActions' = nActions + 1
  /\ local' = [local EXCEPT !.auth_token = Null, !.phone_number = Null,
                            !.doctor_id = Null, !.doctor_name = Null]
  /\ storage' = [present |-> FALSE, list |-> << >>]
  /\ tasks' = tasks \cup
       {SiteTask(tasks, "logout", Closure(Undefined, auth.doctorId, auth.doctorName),
                 NoRequest)}
  /\ op' = HomeOp("logout", Undefined)
  /\ UNCHANGED <<chatVars, sessions, currentSessionId, issued, cookies, auth, page, login,
                 homeV2Vars>>

\* logout, second version, from the answer of its fetch on: the route has deleted the
\* cookies if it was reached, the provider is reset, and the login page is requested
logout2Settled(t, outcome) ==
  /\ t \in tasks
  /\ t.fn = "logout"
  /\ LET jar == IF outcome = "ok" THEN NoCookies ELSE cookies
         served == Served(Page("/login", Null, Null), jar.auth_token)
     IN /\ cookies' = jar
        /\ page' = served
        /\ Reload(served)
  /\ auth' = AuthProviderMount(local)
  /\ login' = LoginInitial
  /\ op' = HomeOp("logoutSettled", outcome)
  /\ UNCHANGED <<storage, issued, nActions, local, homeV2Vars>>

NextHome ==
  \/ OnChatPage /\ \E text \in Inputs : setInput(text)
  \/ OnChatPage /\ handleSendMessage
  \/ OnChatPage /\ retryConnection
  \/ OnChatPage /\ handleCreateNewSession
  \/ OnChatPage /\ \E i \in 1..Len(sessions) : handleSessionSelect(sessions[i])
  \/ OnChatPage /\ \E i \in 1..Len(sessions) : handleDeleteSession(sessions[i])
  \/ \E t \in tasks, err \in Errors \cup {Undefined} : initializeSessionSettled(t, err)
  \/ \E t \in tasks, err \in Errors \cup {Undefined} : loadSessionMessagesSettled(t, err)
  \/ \E t \in tasks, err \in Errors \cup {Undefined} : sendChatMessageCreateSettled(t, err)
  \/ \E t \in tasks, err \in Errors : handleSendMessageFailed(t, err)
  \/ \E t \in tasks : \E reply \in Replies(t.req.session_id) :
       handleSendMessageSettled(t, reply)
  \/ logout2
  \/ \E t \in tasks, outcome \in LogoutOutcomes : logout2Settled(t, outcome)

SpecHome == Init /\ [][NextHome]_vars

\* ================================================================ claims
Last(seq) == seq[Len(seq)]

IsPrefix(a, b) == Len(a) <= Len(b) /\ SubSeq(b, 1, Len(a)) = a

\* empty or whitespace-only, character by character
AllWhitespace(s) == \A i \in 1..Len(Chars(s)) : Chars(s)[i] \in WhiteSpace

\* ids of the entries that no send appends
NonSendIds == {"1", "loaded_session", "error_load", "error_init"}

IsUserEntry(m) == m.id = "user_" /\ m.type = "user"
IsReplyEntry(m) == m.id = "bot_" /\ m.type = "bot"
IsSendErrorEntry(m) == m.id = "error_" /\ m.type = "bot" /\ m.bureauDecision = Undefined

\* a send of the mounted ChatInterface has just settled with an error
FailedSendJustSettled ==
  /\ op.name \in {"handleSendMessageSettled", "sendChatMessageCreateSettled"}
  /\ op.arg = "failed"

\* C1: when the first N-1 sends to the coordinator were answered and the N-th has just
\* failed, the log is its initial entries, then N-1 pairs of user entry and assistant
\* reply, then the N-th user entry and exactly one error entry, and the processing flag
\* is false.
C1_FailedSendLog ==
  (FailedSendJustSettled /\ sendsFailed = 1) =>
    LET n == Len(messages)
        k == n - 2 * sendsOk - 2
    IN /\ ~isProcessing
       /\ k >= 1
       /\ \A i \in 1..k : messages[i].id \in NonSendIds
       /\ \A j \in 1..sendsOk : /\ IsUserEntry(messages[k + 2 * j - 1])
                                /\ IsReplyEntry(messages[k + 2 * j])
       /\ IsUserEntry(messages[n - 1])
       /\ IsSendErrorEntry(messages[n])

\* the second send fails after the first was answered
C1_Witness == FailedSendJustSettled /\ sendsFailed = 1 /\ sendsOk = 1

\* C2: a send invoked with empty or whitespace-only input issues no remote request,
\* appends nothing to the log and leaves the processing and connection-error flags as
\* they were.
C2_BlankSendInert ==
  [][(op'.name = "handleSendMessage" /\ AllWhitespace(input)) =>
       /\ tasks' = tasks
       /\ messages' = messages
       /\ isProcessing' = isProcessing
       /\ connectionError' = connectionError]_vars

\* send was invoked on whitespace-only input
C2_Witness == op = Op("handleSendMessage", "  ")

\* a message request of the mounted ChatInterface has just been answered
ReplyJustRendered == op.name = "handleSendMessageSettled" /\ op.arg = "ok"

\* the reply body is serialized data with the fields message and bureauDecision
HasEnvelopeFields(body) ==
  LET p == JSONparse(body)
  IN p.kind = "object" /\ p.message # Undefined /\ p.bureauDecision # Undefined

\* C3 as stated: a reply body with the fields message and bureauDecision is rendered as
\* the inner message with the decision attached; any other body is rendered as the raw
\* body, without decision, as an assistant reply and not as an error.
C3_Original ==
  ReplyJustRendered =>
    LET m == Last(messages)
        body == op.reply.response
        p == JSONparse(body)
    IN /\ IsReplyEntry(m)
       /\ IF HasEnvelopeFields(body)
            THEN m.text = p.message /\ m.bureauDecision = p.bureauDecision
            ELSE m.text = body /\ m.bureauDecision = Undefined

\* C3: a reply body that is serialized data whose message field is non-empty and whose
\* bureauDecision field is non-null is rendered as the inner message with the decision
\* attached; an empty body is rendered as the fixed text "I received your message.";
\* any other body is rendered as the raw body; in the last two cases no decision is
\* attached, and in every case the entry is an assistant reply, not an error.
C3_RenderedReply ==
  ReplyJustRendered =>
    LET m == Last(messages)
        body == op.reply.response
        p == JSONparse(body)
    IN /\ IsReplyEntry(m)
       /\ IF HasEnvelopeFields(body) /\ p.message # "" /\ p.bureauDecision # Null
            THEN m.text = p.message /\ m.bureauDecision = p.bureauDecision
            ELSE /\ m.bureauDecision = Undefined
                 /\ m.text = (IF body = "" THEN ReceivedText ELSE body)

\* an envelope was rendered as its inner message with the decision attached
C3_Witness ==
  /\ ReplyJustRendered
  /\ op.reply.response = EnvelopeBody
  /\ Last(messages).text = "Approved"
  /\ Last(messages).bureauDecision = "APPROVED"

\* a send of the mounted ChatInterface settles in this step
SendSettles ==
  op'.name \in {"handleSendMessageSettled", "sendChatMessageCreateSettled"}

\* C4: across an exchange the progress value never decreases, whatever the reply.
C4_ProgressNeverDecreases ==
  [][SendSettles => applicationProgress' >= applicationProgress]_vars

NoDecisionYet == \A i \in 1..Len(messages) : messages[i].bureauDecision = Undefined

C6_FullExactlyOnDecision ==
  ReplyJustRendered =>
    ((Last(messages).bureauDecision # Undefined) <=> (applicationProgress = FullProgress))

\* C7: deleting a history entry leaves persisted storage holding the previously persisted
\* list without that entry, the other entries kept in order.
C7_DeleteRemovesFromStorage ==
  [][op'.name = "handleDeleteSession" =>
       /\ storage'.present
       /\ storage'.list = Filter(storage.list, op'.arg)]_vars

\* C8: deleting a history entry clears the active session handle (that of HomeContent
\* and that of the coordinator it mounts) if the entry is the active session, and
\* leaves both unchanged if it is any other entry.
C8_DeleteClearsActiveOnly ==
  [][op'.name = "handleDeleteSession" =>
       IF currentSessionId = op'.arg
         THEN currentSessionId' = Undefined /\ sessionId' = Undefined
         ELSE currentSessionId' = currentSessionId /\ sessionId' = sessionId]_vars

\* the active session was deleted and the handle cleared
C8_Witness ==
  /\ op.name = "handleDeleteSession"
  /\ op.active = op.arg
  /\ currentSessionId = Undefined

\* the message requests in flight, by handler
MessageRequests(ts) == {[id |-> t.id, req |-> t.req] : t \in {u \in ts : u.req.kind = "message"}}

\* C9: a send of non-blank input without a session handle issues a create-session
\* request and no message request; the message request of such a send is issued in the
\* step in which its create-session request is answered, and carries the handle that
\* answer returned; when the create-session request fails, no message request follows.
C9_CreateBeforeMessage ==
  [][/\ (op'.name = "handleSendMessage" /\ ~AllWhitespace(input) /\ ~Truthy(sessionId)) =>
          /\ \E u \in tasks' : /\ tasks' = tasks \cup {u}
                               /\ u \notin tasks
                               /\ u.fn = "handleSendMessage"
                               /\ u.req = CreateRequest
          /\ MessageRequests(tasks') = MessageRequests(tasks)
     /\ \A u \in tasks' :
          (/\ u.fn = "handleSendMessage"
           /\ ~Truthy(u.sessionId)
           /\ u.req.kind = "message"
           /\ [id |-> u.id, req |-> u.req] \notin MessageRequests(tasks)) =>
            /\ \E t \in tasks : t.id = u.id /\ t.fn = "handleSendMessage" /\ t.req = CreateRequest
            /\ issued' = issued + 1
            /\ u.req.session_id = Handle(issued')
            /\ u.req.message = u.userInput
     /\ \A t \in tasks :
          (t.fn = "handleSendMessage" /\ t.req = CreateRequest /\ issued' = issued) =>
            ~\E u \in tasks' : u.id = t.id /\ u.req.kind = "message"]_vars

\* a send without a handle has its message request in flight, with the handle created
C9_Witness ==
  \E t \in tasks : /\ t.fn = "handleSendMessage"
                   /\ t.mounted
                   /\ ~Truthy(t.sessionId)
                   /\ t.req.kind = "message"
                   /\ t.req.session_id = Handle(issued)

\* a coordinator operation ran in this step: start session (failed, since a session
\* started mounts a new coordinator), resume/load, send or retry
CoordinatorStep ==
  \/ op'.name \in {"handleSendMessage", "handleSendMessageSettled",
                   "sendChatMessageCreateSettled", "retryConnection",
                   "loadSessionMessagesSettled"}
  \/ op'.name = "initializeSessionSettled" /\ op'.arg = "failed"

StartJustFailed == op.name = "initializeSessionSettled" /\ op.arg = "failed"

\* C11: whenever a start-session request fails, whatever the failure, an error entry is
\* appended to the log and the connection-error flag is set, so that the retry control is
\* shown and enabled.
C11_StartFailureSetsFlag ==
  StartJustFailed =>
    /\ Last(messages).id = "error_init"
    /\ connectionError
    /\ ~isProcessing

\* C12: a handle obtained by a send is stored by the coordinator when the send settles,
\* and a send of non-blank input by a coordinator that holds a handle issues a message
\* request with that handle and no create-session request.
C12_HandleKept ==
  [][/\ \A t \in tasks :
          (/\ op'.name = "handleSendMessageSettled"
           /\ t.mounted
           /\ t.fn = "handleSendMessage"
           /\ t.req.kind = "message") => sessionId' = t.req.session_id
     /\ (op'.name = "handleSendMessage" /\ ~AllWhitespace(input) /\ Truthy(sessionId)) =>
          \E u \in tasks' : /\ tasks' = tasks \cup {u}
                            /\ u \notin tasks
                            /\ u.req = Request("message", sessionId, input)]_vars

\* the requests in flight, by handler
Requests(ts) == {[id |-> t.id, req |-> t.req] : t \in ts}

\* the handlers a user gesture invokes
UserGestures == {"handleSendMessage", "retryConnection", "handleCreateNewSession",
                 "handleSessionSelect", "handleDeleteSession"}

\* the continuations of the handlers that await a remote request
Continuations == {"initializeSessionSettled", "loadSessionMessagesSettled",
                  "handleSendMessageSettled", "sendChatMessageCreateSettled"}

C14_SingleOutstanding ==
  /\ Cardinality(tasks) <= 1
  /\ tasks # {} => isProcessing

\* C16: after new-chat the coordinator holds neither the session handle nor the message
\* log of the previous conversation.
C16_NewChatDiscards ==
  [][op'.name = "handleCreateNewSession" =>
       /\ sessionId' = Undefined
       /\ messages' = <<WelcomeMessage>>]_vars

\* the middleware has answered a request for a page
MiddlewareRan == op.name = "middleware"

\* C17 as stated: a request for "/" without auth_token cookie is redirected to "/login",
\* a request for "/login" with an auth_token cookie is redirected to "/", and every
\* other request passes through unchanged.
C17_Original ==
  MiddlewareRan =>
    LET q == op.request
        r == op.response
    IN IF q.pathname = "/" /\ q.token = Undefined
         THEN r.kind = "redirect" /\ r.location.pathname = "/login"
         ELSE IF q.pathname = "/login" /\ q.token # Undefined
                THEN r.kind = "redirect" /\ r.location.pathname = "/"
                ELSE /\ r.kind = "next"
                     /\ r.location = Page(q.pathname, q.doctorId, q.doctor_name)

\* C17: a request for "/" without auth_token cookie or with an empty one is redirected
\* to "/login" and not served the chat page, a request for "/login" with a non-empty
\* auth_token cookie is redirected to "/", and every other request passes through
\* unchanged.
C17_Gate ==
  MiddlewareRan =>
    LET q == op.request
        r == op.response
    IN IF q.pathname = "/" /\ q.token \in {Undefined, ""}
         THEN /\ r.kind = "redirect"
              /\ r.location.pathname = "/login"
              /\ Served(Page(q.pathname, q.doctorId, q.doctor_name), q.token).pathname = "/login"
         ELSE IF q.pathname = "/login" /\ q.token \notin {Undefined, ""}
                THEN r.kind = "redirect" /\ r.location.pathname = "/"
                ELSE /\ r.kind = "next"
                     /\ r.location = Page(q.pathname, q.doctorId, q.doctor_name)

\* a request for "/" with an empty auth_token cookie was redirected to "/login"
C17_Witness ==
  /\ MiddlewareRan
  /\ op.request.pathname = "/"
  /\ op.request.token = ""
  /\ op.response.kind = "redirect"
  /\ op.response.location.pathname = "/login"

\* the request to the verify-otp route carries a phone number and a code
ValidVerifyInput(body) ==
  body.kind = "object" /\ Truthy(body.phone_number) /\ Truthy(body.otp)

\* the backend answered with a success status and a body that is a JSON object
BackendSuccess(backend) ==
  backend.kind = "response" /\ backend.ok /\ backend.data.kind = "object"

\* C19: the verify-otp route sets the auth_token and phone_number cookies and answers
\* 200 if the request carries phone number and code and the backend answers with a
\* success; in every other case (missing input, non-success status, a body that is not
\* JSON, an exception) it sets no cookie, the cookies stay as they were, and it answers
\* with an error.
C19_CookiesOnlyOnSuccess ==
  [][op'.name = "POST_verify_otp" =>
       LET r == op'.response
       IN IF ValidVerifyInput(op.request) /\ BackendSuccess(op.backend)
            THEN /\ r.status = 200
                 /\ r.setCookie.auth_token = CookieValue(op.backend.data.token)
                 /\ r.setCookie.phone_number = op.request.phone_number
                 /\ cookies'.auth_token = r.setCookie.auth_token
                 /\ cookies'.phone_number = r.setCookie.phone_number
            ELSE /\ r.setCookie = NoCookies
                 /\ cookies' = cookies
                 /\ r.status >= 400
                 /\ r.error # Undefined]_vars

\* the verification succeeded and the cookies of the client hold the token issued
C19_Witness ==
  /\ op.name = "POST_verify_otp"
  /\ op.response.status = 200
  /\ cookies.auth_token = Token
  /\ cookies.phone_number = Phone

\* a route has answered a POST
RouteRan == op.name \in {"POST_send_otp", "POST_verify_otp", "POST_message"}

\* the fields a route requires of the body of its request
Required(route) ==
  CASE route = "send-otp" -> {"phone_number"}
    [] route = "verify-otp" -> {"phone_number", "otp"}
    [] route = "message" -> {"message", "session_id"}

\* C20 as stated: a request to the send-otp, verify-otp or message route in which a
\* required field is missing is answered 400 without a request to the backend.
C20_Original ==
  RouteRan =>
    ((\E f \in Required(op.arg) : op.request.kind # "object" \/ op.request[f] = Undefined) =>
       /\ op.response.status = 400
       /\ ~op.response.backendCalled)

\* C20: a request to the send-otp, verify-otp or message route whose body is a JSON
\* object in which a required field is absent, null or empty is answered 400; a request
\* whose body is not a JSON object is answered 500; in both cases with an error and
\* without a request to the backend.
C20_RejectedBeforeRemote ==
  RouteRan =>
    /\ (op.request.kind = "object" /\ \E f \in Required(op.arg) : ~Truthy(op.request[f])) =>
         /\ op.response.status = 400
         /\ op.response.error # Undefined
         /\ ~op.response.backendCalled
    /\ op.request.kind # "object" =>
         /\ op.response.status = 500
         /\ op.response.error # Undefined
         /\ ~op.response.backendCalled

\* the message route rejected a request without session id
C20_Witness ==
  /\ op.name = "POST_message"
  /\ op.request.kind = "object"
  /\ op.request.message = "Hello"
  /\ op.request.session_id = Undefined
  /\ op.response.status = 400
  /\ ~op.response.backendCalled

\* C18: when logout has completed, whatever the request to /api/logout gave, local
\* storage holds no auth_token and no phone_number, the provider is unauthenticated
\* with token null, and a navigation to the login page was issued.
C18_LogoutInvalidates ==
  op.name = "logoutSettled" =>
    /\ local.auth_token = Null
    /\ local.phone_number = Null
    /\ ~auth.isAuthenticated
    /\ auth.token = Null
    /\ op.response.kind = "navigation"
    /\ op.response.location.pathname = "/login"

\* C15: every session handle attached to a message request was issued by the backend,
\* in the response to a create-session request; the client authors none.
C15_HandlesIssuedByBackend ==
  \A t \in tasks :
    t.req.kind = "message" => t.req.session_id \in {Handle(k) : k \in 1..issued}

\* the send of the mounted ChatInterface whose request settles in this step
SettlingSend == {t \in tasks \ tasks' : t.mounted /\ t.fn = "handleSendMessage"}

\* every reply and every send error in the log directly follows a user entry
AnswersFollowUserEntries ==
  \A i \in 1..Len(messages) :
    (IsReplyEntry(messages[i]) \/ messages[i].id = "error_") =>
      i > 1 /\ IsUserEntry(messages[i - 1])

\* C22: a send of non-empty input appends the user entry at once, with its request still
\* to settle; when the request settles, with a reply or with an error, the user entry is
\* still the last entry and exactly one assistant entry is appended after it; so every
\* reply and every send error in the log directly follows the user entry it answers.
C22_OptimisticAppend ==
  /\ []AnswersFollowUserEntries
  /\ [][/\ (op'.name = "handleSendMessage" /\ ~AllWhitespace(input)) =>
             /\ messages' = Append(messages, Message("user_", "user", input, Undefined))
             /\ \E u \in tasks' : u \notin tasks /\ u.userInput = input /\ u.mounted
        /\ (op'.name = "handleSendMessageSettled"
            \/ (op'.name = "sendChatMessageCreateSettled" /\ op'.arg = "failed")) =>
             /\ Len(messages') = Len(messages) + 1
             /\ IsPrefix(messages, messages')
             /\ IsUserEntry(Last(messages))
             /\ \A t \in SettlingSend : Last(messages).text = t.userInput
             /\ SettlingSend # {}
             /\ IF op'.arg = "ok" THEN IsReplyEntry(Last(messages'))
                ELSE IsSendErrorEntry(Last(messages'))
        /\ (op'.name = "sendChatMessageCreateSettled" /\ op'.arg = "ok") =>
             messages' = messages]_vars

\* a send failed and the next send was answered
C22_Witness ==
  /\ Len(messages) >= 5
  /\ IsReplyEntry(Last(messages))
  /\ IsUserEntry(messages[Len(messages) - 1])
  /\ IsSendErrorEntry(messages[Len(messages) - 2])
  /\ IsUserEntry(messages[Len(messages) - 3])

\* C23: when the session-status request of a resumed session fails, a create-session
\* request is issued, and on its success the coordinator holds the handle it returns
\* and not the one that failed to load.
C23_FailedResumeStartsNew ==
  [][(op'.name = "loadSessionMessagesSettled" /\ op'.arg = "failed") =>
       \E u \in tasks' : /\ u \notin tasks
                         /\ u.mounted
                         /\ u.fn = "initializeSession"
                         /\ u.req = CreateRequest]_vars

\* the user actions of HomeContent that choose the active session
HomeGestures == {"handleCreateNewSession", "handleSessionSelect", "handleDeleteSession"}

\* C26: after a session was selected from the history the active session handle stays
\* the selected one until the next new chat, select or delete; the continuation of a
\* handler of a ChatInterface that is no longer mounted never changes it.
C26_SelectionStays ==
  [][/\ (op.name = "handleSessionSelect" /\ op'.name \notin HomeGestures) =>
          currentSessionId' = op.arg
     /\ op'.name = "detached" => currentSessionId' = currentSessionId]_vars

\* C29: with the connection-error flag set and the processing flag false, the retry
\* control issues a request, whether the flag was set by a failed start of a session or
\* by a failed send with a handle held; and when that request succeeds the flag is
\* clear.
C29_RetryIssuesRequest ==
  [][/\ op'.name = "retryConnection" =>
          \E u \in tasks' : u \notin tasks /\ u.mounted /\ u.fn = "initializeSession"
     /\ (op'.name = "initializeSessionSettled" /\ op'.arg = "ok") => ~connectionError']_vars

\* the ids that end with Date.now(): the prefix stands for the whole id, and two entries
\* with the same prefix are taken to differ by their time stamps
ClockIds == {"user_", "bot_", "error_"}

\* C30: the entries of the message log have pairwise distinct ids in every reachable
\* state, also after repeated failed starts of a session and retries.
C30_DistinctIds ==
  \A i, j \in 1..Len(messages) :
    (i < j /\ messages[i].id = messages[j].id) => messages[i].id \in ClockIds

\* an operation of the API hook has returned
ApiReturned == op.name = "returned"

\* the request whose answer the operation returns got a success status and a body that
\* is the JSON value null
NullSuccess ==
  LET c == op.request
  IN /\ c.outcome.kind = "response"
     /\ c.outcome.ok
     /\ c.outcome.body.kind = "null"
     /\ (c.fn = "sendChatMessage" /\ ~Truthy(c.sessionId)) =>
          ~Truthy(createSession(c.created).error)

\* C21 as stated: createSession, sendChatMessage and getSessionStatus never throw to the
\* caller and return a result in which exactly one of data and error is non-null,
\* whatever the backend does.
C21_Original ==
  ApiReturned =>
    /\ ~op.response.throws
    /\ (op.response.data.kind # "null") # (op.response.error # Null)

\* C21: createSession, sendChatMessage and getSessionStatus never throw to the caller,
\* whatever the backend does, and return a result in which exactly one of data and
\* error is non-null, except for a success status with the body null, where both are
\* null.
C21_UniformResult ==
  ApiReturned =>
    /\ ~op.response.throws
    /\ ~op.response.loading
    /\ IF NullSuccess
         THEN op.response.data.kind = "null" /\ op.response.error = Null
         ELSE (op.response.data.kind # "null") # (op.response.error # Null)

\* sendChatMessage without a handle returned the error of a message request that was
\* answered with an error status and a body that is not JSON
C21_Witness ==
  /\ ApiReturned
  /\ op.arg = "sendChatMessage"
  /\ ~Truthy(op.request.sessionId)
  /\ op.request.created = FetchResponse(TRUE, ApiBody("object", Undefined, Handle(1)))
  /\ op.request.outcome = FetchResponse(FALSE, ApiBody("throws", Undefined, Undefined))
  /\ op.response.error = "Server error: 500 Internal Server Error"
  /\ op.response.data.kind = "null"

\* C28: the phone number of a verify-OTP request is the one the last successful
\* send-OTP request was addressed to, whatever is typed into the phone field while a
\* send-OTP request is in flight: when the answer of a send-OTP request makes the code
\* form appear the phone field holds the number that was sent, the field keeps it as
\* long as the code form is shown, and the verify-OTP request carries it.
C28_VerifyPhoneIsSentPhone ==
  [][/\ (op'.name = "sendOtpSettled" /\ op'.arg = "ok" /\ ~login.otpSent /\ login'.otpSent) =>
          login'.phone = op'.request.phone_number
     /\ (login.otpSent /\ login'.otpSent) => login'.phone = login.phone
     /\ (op'.name = "verifyOtp" /\ op'.request # NoRequest) =>
          /\ login.otpSent
          /\ op'.request.phone_number = login.phone]_vars

\* C25: when logout has completed local storage holds no stored sessions, whatever the
\* user did to the history (new chat, select, delete) while the request of logout was
\* awaited.
C25_LogoutClearsSessions == op.name = "logoutSettled" => ~storage.present

\* C27: when logout has completed the auth_token cookie is gone, so that the next
\* request for "/" is redirected to "/login" and the chat page is not served, also when
\* the request to /api/logout failed or was rejected.
C27_LogoutClearsCookie ==
  op.name = "logoutSettled" =>
    /\ cookies.auth_token = Undefined
    /\ Middleware("/", cookies.auth_token, Null, Null).kind = "redirect"
    /\ page.pathname = "/login"

\* the requests of logout that are awaited
LogoutTasks(ts) == {t.id : t \in {u \in ts : u.fn = "logout"}}

\* the count in memory and the stored count agree and lie between 0 and 9
CountSettled ==
  /\ chatCount \in 0..(AutoLogoutAt - 1)
  /\ local.chat_count = ClientCount(chatCount)

\* C24: each new chat adds one to the counter; when the counter reaches 10 logout is
\* called exactly once and the counter is reset to 0 in memory and in local storage;
\* nothing else changes the counter or calls logout, and once the effects have run the
\* stored counter is the one in memory and lies between 0 and 9.
C24_ChatCounter ==
  /\ []CountSettled
  /\ [][/\ op'.name = "handleNewChat" =>
             IF chatCount + 1 = AutoLogoutAt
               THEN /\ chatCount' = 0
                    /\ local'.chat_count = "0"
                    /\ Cardinality(LogoutTasks(tasks') \ LogoutTasks(tasks)) = 1
               ELSE /\ chatCount' = chatCount + 1
                    /\ LogoutTasks(tasks') \subseteq LogoutTasks(tasks)
        /\ op'.name # "handleNewChat" =>
             /\ chatCount' = chatCount
             /\ LogoutTasks(tasks') \subseteq LogoutTasks(tasks)]_vars

\* the tenth chat was counted, logout was called and is awaited, and the next chat is
\* counted as the first
C24_Witness ==
  /\ op.name = "handleNewChat"
  /\ chatCount = 1
  /\ local.chat_count = "1"
  /\ Cardinality(LogoutTasks(tasks)) = 1
====
